---------------------------- MODULE Spec2Model ----------------------------
(***************************************************************************)
(* A model of the MNT Bench benchmark server (cda-tum/mnt-bench): the      *)
(* catalog built from the names of the archive members, the form decoder,  *)
(* and the catalog filter of the two backends, mnt.bench and                *)
(* mnt.benchviewer.                                                         *)
(*                                                                          *)
(* Representation.  A string that the code splits on "_" is a sequence of  *)
(* its tokens (a benchmark name "par_gen" is <<"par", "gen">>); a file     *)
(* name is [stem |-> <<tokens>>, ext |-> extension].  A form key, which    *)
(* the code searches for substrings, is a sequence of its characters.  A   *)
(* DataFrame is the sequence of its rows, each a record of its columns.    *)
(* A byte stream is a sequence of units: a local file header, a byte of    *)
(* member data, a data descriptor, a central directory entry and the end   *)
(* record are one unit each, and offsets count units.                      *)
(* A column that holds either an integer or the empty string "" holds      *)
(* <<n>> or <<>>.  Definitions of mnt.benchviewer carry the prefix bv_.    *)
(***************************************************************************)
EXTENDS Integers, Sequences, FiniteSets, TLC

VARIABLES
    backend,            \* which package's Backend object this is
    mntbench_all_zip,   \* Backend.mntbench_all_zip: the archive's namelist()
    layout_dimensions,  \* Backend.layout_dimensions (mnt.bench only)
    database,           \* Backend.database: None or the rows of the DataFrame
    form_data,          \* request.form of the request being served
    prepared_data,      \* the BenchmarkConfiguration of that request
    table,              \* what filter_database returned for it
    file_paths,         \* what get_selected_file_paths returned for it
    error,              \* the exception that ended the handler, or None
    generators,         \* the generators of generate_zip_ephemeral_chunks
    parse_data_filename,  \* the argument of a call of parse_data
    parse_data_result,    \* what that call returned or raised
    read_call,          \* a call of read_mntbench_all_zip and what it meets
    pc                  \* where the server is

vars == << backend, mntbench_all_zip, layout_dimensions, database,
           form_data, prepared_data, table, file_paths, error, generators,
           parse_data_filename, parse_data_result, read_call, pc >>

\* Python's None, and a value that is not None
None == << >>

Some(x) == << x >>

(***************************************************************************)
(* Bounds of the model.                                                     *)
(***************************************************************************)
\* the largest number of fields a submitted form holds
MaxForm == 6

\* the largest number of keys of a form given to prepare_form_input alone
MaxKeys == 2

\* the largest number of names given to generate_zip_ephemeral_chunks
MaxNames == 3

(***************************************************************************)
(* Sequence helpers (pandas / Python list operations).                      *)
(***************************************************************************)
Last(s) == s[Len(s)]

\* s[-n:] of Python: the last n elements, all of s when it is shorter
Tail_n(s, n) == IF Len(s) <= n THEN s ELSE SubSeq(s, Len(s) - n + 1, Len(s))

\* s[0:-n] of Python (n > 0): all but the last n elements
DropLast_n(s, n) == IF Len(s) <= n THEN << >> ELSE SubSeq(s, 1, Len(s) - n)

Range(s) == { s[i] : i \in DOMAIN s }

\* DataFrame.empty
empty(df) == Len(df) = 0

\* pd.concat([a, b]): the rows of a, then the rows of b
concat(a, b) == a \o b

\* mutant of drop_duplicates: every row is kept
drop_duplicates_keeps_all(df) == df

\* DataFrame.drop_duplicates(): a row is kept unless an equal row precedes it
drop_duplicates(df) ==
    LET keep(i) == \A j \in 1..(i - 1) : df[j] # df[i]
        F[i \in 0..Len(df)] ==
            IF i = 0 THEN << >>
            ELSE IF keep(i) THEN Append(F[i - 1], df[i]) ELSE F[i - 1]
    IN  F[Len(df)]

(***************************************************************************)
(* The four benchmark families of Backend.__init__ ("filename" entries).    *)
(***************************************************************************)
trindade ==
    << <<"mux21">>, <<"xor2">>, <<"xnor2">>, <<"ha">>, <<"fa">>,
       <<"par", "gen">>, <<"par", "check">> >>

fontes ==
    << <<"t">>, <<"t", "5">>, <<"b1", "r2">>, <<"majority">>,
       <<"majority", "5", "r1">>, <<"newtag">>, <<"clpl">>,
       <<"1bitadderaoig">>, <<"1bitaddermaj">>, <<"2bitaddermaj">>,
       <<"xor5maj">>, <<"xor5", "r1">>, <<"cm82a", "5">>, <<"parity">> >>

iscas ==
    << <<"c17">>, <<"c432">>, <<"c499">>, <<"c880">>, <<"c1355">>,
       <<"c1908">>, <<"c2670">>, <<"c3540">>, <<"c5315">>, <<"c6288">>,
       <<"c7552">> >>

epfl ==
    << <<"ctrl">>, <<"router">>, <<"int2float">>, <<"cavlc">>, <<"priority">>,
       <<"dec">>, <<"i2c">>, <<"adder">>, <<"bar">>, <<"max">>, <<"sin">> >>

bv_trindade ==
    << <<"mux21">>, <<"xor2">>, <<"xnor2">>, <<"ha">>, <<"fa">>,
       <<"par", "gen">>, <<"par", "check">> >>

bv_fontes ==
    << <<"t">>, <<"b1", "r2">>, <<"majority">>, <<"newtag">>, <<"clpl">>,
       <<"1bitadderaoig">>, <<"1bitaddermaj">>, <<"2bitaddermaj">>,
       <<"xor5maj">>, <<"cm82a", "5">>, <<"parity">> >>

bv_iscas ==
    << <<"c17">>, <<"c432">>, <<"c499">>, <<"c880">>, <<"c1355">>,
       <<"c1908">>, <<"c2670">>, <<"c3540">>, <<"c5315">>, <<"c6288">>,
       <<"c7552">> >>

bv_epfl ==
    << <<"ctrl">>, <<"router">>, <<"int2float">>, <<"cavlc">>, <<"priority">>,
       <<"dec">>, <<"i2c">>, <<"adder">>, <<"arbiter">>, <<"bar">>, <<"max">>,
       <<"sin">>, <<"voter">>, <<"square">> >>

(***************************************************************************)
(* File names and str.lower().                                              *)
(***************************************************************************)
\* the name "<t1>_<t2>_..._<tn>.fgl"
fgl(stem) == [stem |-> stem, ext |-> "fgl"]

\* the name "<t1>_..._<tn>.v"
v(stem) == [stem |-> stem, ext |-> "v"]

\* str.lower() on one token of a name
lower(t) ==
    CASE t = "ONE" -> "one"
      [] t = "Y" -> "y"
      [] t = "Bestagon" -> "bestagon"
      [] t = "2DDWave" -> "2ddwave"
      [] t = "USE" -> "use"
      [] t = "RES" -> "res"
      [] t = "ESR" -> "esr"
      [] t = "ROW" -> "row"
      [] t = "BEST" -> "best"
      [] t = "Opt" -> "opt"
      [] t = "UnOpt" -> "unopt"
      [] t = "Ord" -> "ord"
      [] t = "UnOrd" -> "unord"
      [] t = "NanoPlaceR" -> "nanoplacer"
      [] t = "C17" -> "c17"
      [] OTHER -> t

\* str.lower() on a name, token by token
lower_all(stem) == [i \in DOMAIN stem |-> lower(stem[i])]

\* dict.get(key, default)
get(d, key, default) == IF key \in DOMAIN d THEN d[key] ELSE default

\* dict.get(key, ""): <<n>> for the integer n, << >> for ""
get_or_empty(d, key) == IF key \in DOMAIN d THEN << d[key] >> ELSE << >>

(***************************************************************************)
(* mnt.bench: Backend.parse_data and create_database.                       *)
(***************************************************************************)
\* mutant of is_best_fgl: the shorthand of the best layouts is not known
is_best_fgl_never(filename) == FALSE

\* "best.fgl" in filename.lower(); no token of the archive's vocabulary has
\* "best" as a proper suffix
is_best_fgl(filename) == lower(Last(filename.stem)) = "best"

\* specs[-2:] if is_best_fgl else specs[-5:]
suffix_specs(filename) ==
    Tail_n(lower_all(filename.stem), IF is_best_fgl(filename) THEN 2 ELSE 5)

\* the entry of layout_dimensions for the file: {} when there is none
dimensions_of(dims, filename) ==
    LET hits == { i \in DOMAIN dims : filename \in DOMAIN dims[i] }
    IN  IF hits = {} THEN << >>   \* the empty dict
        ELSE dims[CHOOSE i \in hits : \A j \in hits : i <= j][filename]

\* the exception parse_data raises on the name, None when it returns
parse_data_raises(filename) ==
    IF filename.ext = "fgl"
    THEN IF Len(suffix_specs(filename)) < 2 THEN Some("ValueError") ELSE None
    ELSE IF filename.ext = "v" THEN None ELSE Some("RuntimeError")

parse_data(dims, filename) ==
    LET d == dimensions_of(dims, filename)
        specs == lower_all(filename.stem)
        n == IF is_best_fgl(filename) THEN 2 ELSE 5
        suffix == suffix_specs(filename)
        additional_specs == SubSeq(suffix, 3, Len(suffix))
        padded == additional_specs \o
                  [i \in 1..(3 - Len(additional_specs)) |-> ""]
        gate == filename.ext = "fgl"
    IN  [ benchmark |-> IF gate THEN DropLast_n(specs, n) ELSE specs,
          level |-> IF gate THEN "gate" ELSE "network",
          library |-> IF gate THEN suffix[1] ELSE "",
          clocking_scheme |-> IF gate THEN suffix[2] ELSE "",
          physical_design_algorithm |-> IF gate THEN padded[1] ELSE "",
          optimized |-> IF gate THEN padded[2] ELSE "",
          ordered |-> IF gate THEN padded[3] ELSE "",
          x |-> get_or_empty(d, "x"),
          y |-> get_or_empty(d, "y"),
          area |-> IF gate /\ DOMAIN d # {}
                   THEN << get(d, "x", 0) * get(d, "y", 0) >>
                   ELSE << >>,
          size_uncompressed |-> get(d, "size_uncompressed", 0),
          size_compressed |-> get(d, "size_compressed", 0),
          filename |-> filename ]

\* filename.endswith((".fgl", ".v"))
is_catalog_member(filename) == filename.ext \in {"fgl", "v"}

\* the names create_database parses, in namelist() order
catalog_members(namelist) == SelectSeq(namelist, is_catalog_member)

\* the exception create_database lets through, None when it returns
create_database_raises(namelist) ==
    LET m == catalog_members(namelist)
        bad == { i \in DOMAIN m : parse_data_raises(m[i]) # None }
    IN  IF bad = {} THEN None
        ELSE parse_data_raises(m[CHOOSE i \in bad : \A j \in bad : i <= j])

create_database(dims, namelist) ==
    LET m == catalog_members(namelist)
    IN  [i \in DOMAIN m |-> parse_data(dims, m[i])]

(***************************************************************************)
(* mnt.benchviewer: parse_data and create_database.                         *)
(***************************************************************************)
\* filename.split("_")[-2] needs two tokens
bv_parse_data_raises(filename) ==
    IF filename.ext = "fgl"
    THEN IF Len(filename.stem) < 2 THEN Some("IndexError") ELSE None
    ELSE IF filename.ext = "v" THEN None ELSE Some("RuntimeError")

bv_parse_data(filename) ==
    LET specs == lower_all(filename.stem)
        gate == filename.ext = "fgl"
    IN  [ benchmark |-> IF gate THEN DropLast_n(specs, 2) ELSE specs,
          level |-> IF gate THEN "gate" ELSE "network",
          library |-> IF gate THEN specs[Len(specs) - 1] ELSE "",
          clocking_scheme |-> IF gate THEN specs[Len(specs)] ELSE "",
          filename |-> filename ]

bv_create_database_raises(namelist) ==
    LET m == catalog_members(namelist)
        bad == { i \in DOMAIN m : bv_parse_data_raises(m[i]) # None }
    IN  IF bad = {} THEN None
        ELSE bv_parse_data_raises(m[CHOOSE i \in bad : \A j \in bad : i <= j])

bv_create_database(namelist) ==
    LET m == catalog_members(namelist)
    IN  [i \in DOMAIN m |-> bv_parse_data(m[i])]

(***************************************************************************)
(* Form decoding: prepare_form_input and parse_benchmark_id_from_form_key.  *)
(***************************************************************************)
\* tok in k
contains(k, tok) ==
    \E i \in 1..(Len(k) - Len(tok) + 1) : SubSeq(k, i, i + Len(tok) - 1) = tok

is_digit(c) == c \in {"0", "1", "2", "3", "4", "5", "6", "7", "8", "9"}

digit_value(c) ==
    CASE c = "0" -> 0 [] c = "1" -> 1 [] c = "2" -> 2 [] c = "3" -> 3
      [] c = "4" -> 4 [] c = "5" -> 5 [] c = "6" -> 6 [] c = "7" -> 7
      [] c = "8" -> 8 [] c = "9" -> 9

\* int(s) of a string of decimal digits
int(s) ==
    LET F[i \in 0..Len(s)] ==
            IF i = 0 THEN 0 ELSE 10 * F[i - 1] + digit_value(s[i])
    IN  F[Len(s)]

\* re.compile(r"_\d+").search(k): the leftmost "_" that a digit follows and
\* the longest run of digits after it; None when there is no match
search_underscore_digits(k) ==
    LET starts == { i \in 1..(Len(k) - 1) : k[i] = "_" /\ is_digit(k[i + 1]) }
        s == CHOOSE i \in starts : \A j \in starts : i <= j
        ends == { e \in (s + 1)..Len(k) :
                    /\ \A j \in (s + 1)..e : is_digit(k[j])
                    /\ (e = Len(k) \/ ~is_digit(k[e + 1])) }
        e == CHOOSE x \in ends : TRUE
    IN  IF starts = {} THEN None ELSE Some(SubSeq(k, s, e))

\* the int the function returns, or False: [is_int |-> FALSE] is False
parse_benchmark_id_from_form_key(k) ==
    LET m == search_underscore_digits(k)
    IN  IF m # None
        THEN [is_int |-> TRUE, value |-> int(SubSeq(m[1], 2, Len(m[1])))]
        ELSE [is_int |-> FALSE, value |-> 0]

\* Python's truth value of an int | bool
truthy(r) == r.is_int /\ r.value # 0

T_select == <<"s", "e", "l", "e", "c", "t">>
T_network == <<"n", "e", "t", "w", "o", "r", "k">>
T_gate == <<"g", "a", "t", "e">>
T_one == <<"o", "n", "e">>
T_bestagon == <<"b", "e", "s", "t", "a", "g", "o", "n">>
T_twoddwave == <<"t", "w", "o", "d", "d", "w", "a", "v", "e">>
T_use == <<"u", "s", "e">>
T_res == <<"r", "e", "s">>
T_esr == <<"e", "s", "r">>
T_row == <<"r", "o", "w">>
T_best_layout == <<"b", "e", "s", "t", "-", "l", "a", "y", "o", "u", "t">>
T_exact == <<"e", "x", "a", "c", "t">>
T_ortho == <<"o", "r", "t", "h", "o">>
T_nanoplacer == <<"n", "a", "n", "o", "p", "l", "a", "c", "e", "r">>
T_post_layout == <<"p", "o", "s", "t", "-", "l", "a", "y", "o", "u", "t">>
T_input_ordering == <<"i", "n", "p", "u", "t", "-", "o", "r", "d", "e", "r", "i", "n", "g">>

\* the locals of prepare_form_input before its loop
no_selection ==
    [ indices_benchmarks |-> << >>, network |-> FALSE, gate |-> FALSE,
      one |-> FALSE, bestagon |-> FALSE, twoddwave |-> FALSE, use |-> FALSE,
      res |-> FALSE, esr |-> FALSE, row |-> FALSE, best |-> FALSE,
      exact |-> FALSE, ortho |-> FALSE, nanoplacer |-> FALSE,
      optimized |-> FALSE, ordered |-> FALSE ]

\* one pass of the loop of prepare_form_input, on the key k
form_key_step(c, k) ==
    LET found_benchmark_id == parse_benchmark_id_from_form_key(k)
    IN  [ indices_benchmarks |->
              IF contains(k, T_select) /\ truthy(found_benchmark_id)
              THEN Append(c.indices_benchmarks, found_benchmark_id.value)
              ELSE c.indices_benchmarks,
          network |-> contains(k, T_network) \/ c.network,
          gate |-> contains(k, T_gate) \/ c.gate,
          one |-> contains(k, T_one) \/ c.one,
          bestagon |-> contains(k, T_bestagon) \/ c.bestagon,
          twoddwave |-> contains(k, T_twoddwave) \/ c.twoddwave,
          use |-> contains(k, T_use) \/ c.use,
          res |-> contains(k, T_res) \/ c.res,
          esr |-> contains(k, T_esr) \/ c.esr,
          row |-> contains(k, T_row) \/ c.row,
          best |-> contains(k, T_best_layout) \/ c.best,
          exact |-> contains(k, T_exact) \/ c.exact,
          ortho |-> contains(k, T_ortho) \/ c.ortho,
          nanoplacer |-> contains(k, T_nanoplacer) \/ c.nanoplacer,
          optimized |-> contains(k, T_post_layout) \/ c.optimized,
          ordered |-> contains(k, T_input_ordering) \/ c.ordered ]

\* mnt.bench: the BenchmarkConfiguration of a form (its keys, in order)
prepare_form_input(form) ==
    LET F[i \in 0..Len(form)] ==
            IF i = 0 THEN no_selection ELSE form_key_step(F[i - 1], form[i])
    IN  F[Len(form)]

bv_no_selection ==
    [ indices_benchmarks |-> << >>, network |-> FALSE, gate |-> FALSE,
      one |-> FALSE, bestagon |-> FALSE, twoddwave |-> FALSE, use |-> FALSE,
      res |-> FALSE, esr |-> FALSE, row |-> FALSE ]

bv_form_key_step(c, k) ==
    LET found_benchmark_id == parse_benchmark_id_from_form_key(k)
    IN  [ indices_benchmarks |->
              IF contains(k, T_select) /\ truthy(found_benchmark_id)
              THEN Append(c.indices_benchmarks, found_benchmark_id.value)
              ELSE c.indices_benchmarks,
          network |-> contains(k, T_network) \/ c.network,
          gate |-> contains(k, T_gate) \/ c.gate,
          one |-> contains(k, T_one) \/ c.one,
          bestagon |-> contains(k, T_bestagon) \/ c.bestagon,
          twoddwave |-> contains(k, T_twoddwave) \/ c.twoddwave,
          use |-> contains(k, T_use) \/ c.use,
          res |-> contains(k, T_res) \/ c.res,
          esr |-> contains(k, T_esr) \/ c.esr,
          row |-> contains(k, T_row) \/ c.row ]

\* mnt.benchviewer: the BenchmarkConfiguration of a form
bv_prepare_form_input(form) ==
    LET F[i \in 0..Len(form)] ==
            IF i = 0 THEN bv_no_selection
            ELSE bv_form_key_step(F[i - 1], form[i])
    IN  F[Len(form)]

(***************************************************************************)
(* mnt.bench: Backend.filter_database.                                      *)
(***************************************************************************)
\* df.loc[mask]: the rows that satisfy P, in order
loc(df, P(_)) == SelectSeq(df, P)

\* mutant of isin_benchmark: the catalog is not narrowed to the selection
isin_benchmark_all(df, selected_benchmarks) == df

\* database[database["benchmark"].isin(selected_benchmarks)]
isin_benchmark(df, selected_benchmarks) ==
    loc(df, LAMBDA r : r.benchmark \in Range(selected_benchmarks))

\* mutant of resolve_identifier: the chain ends after iscas
resolve_identifier_without_epfl(selected_benchmarks, identifier) ==
    IF 1 <= identifier /\ identifier <= Len(trindade)
    THEN Append(selected_benchmarks, trindade[identifier])
    ELSE IF 1 <= identifier /\ identifier <= Len(trindade) + Len(fontes)
    THEN Append(selected_benchmarks, fontes[identifier - Len(trindade)])
    ELSE IF 1 <= identifier
            /\ identifier <= Len(trindade) + Len(fontes) + Len(iscas)
    THEN Append(selected_benchmarks,
                iscas[identifier - Len(trindade) - Len(fontes)])
    ELSE selected_benchmarks

\* one pass of the loop over indices_benchmarks: the if/elif chain over the
\* four families
resolve_identifier(selected_benchmarks, identifier) ==
    IF 1 <= identifier /\ identifier <= Len(trindade)
    THEN Append(selected_benchmarks, trindade[identifier])
    ELSE IF 1 <= identifier /\ identifier <= Len(trindade) + Len(fontes)
    THEN Append(selected_benchmarks, fontes[identifier - Len(trindade)])
    ELSE IF 1 <= identifier
            /\ identifier <= Len(trindade) + Len(fontes) + Len(iscas)
    THEN Append(selected_benchmarks,
                iscas[identifier - Len(trindade) - Len(fontes)])
    ELSE IF 1 <= identifier
            /\ identifier <= Len(trindade) + Len(fontes) + Len(iscas) + Len(epfl)
    THEN Append(selected_benchmarks,
                epfl[identifier - Len(trindade) - Len(fontes) - Len(iscas)])
    ELSE selected_benchmarks

\* selected_benchmarks after the loop
resolve_identifiers(indices_benchmarks) ==
    LET F[i \in 0..Len(indices_benchmarks)] ==
            IF i = 0 THEN << >>
            ELSE resolve_identifier(F[i - 1], indices_benchmarks[i])
    IN  F[Len(indices_benchmarks)]

\* one "if benchmark_config.<scheme>:" block: the rows of that scheme are
\* appended to db_tmp_all_schemes
scheme_block(db_tmp_all_schemes, db_filtered, requested, scheme) ==
    IF requested
    THEN concat(db_tmp_all_schemes,
                loc(db_filtered, LAMBDA r : r.clocking_scheme = scheme))
    ELSE db_tmp_all_schemes

\* mutant of filter_exact: the block is missing
filter_exact_skipped(db_filtered, c) == db_filtered

\* "if benchmark_config.exact": the rows of exact
filter_exact(db_filtered, c) ==
    IF c.exact
    THEN loc(db_filtered, LAMBDA r : r.physical_design_algorithm = "exact")
    ELSE db_filtered

\* mutant of filter_nanoplacer: the block is missing
filter_nanoplacer_skipped(db_filtered, c) == db_filtered

\* "if benchmark_config.nanoplacer": the rows of nanoplacer, the optimized
\* ones when optimized is set; ordered is not looked at
filter_nanoplacer(db_filtered, c) ==
    LET n1 == loc(db_filtered,
                  LAMBDA r : r.physical_design_algorithm = "nanoplacer")
    IN  IF c.nanoplacer
        THEN IF c.optimized
             THEN loc(n1, LAMBDA r : r.optimized = "opt") ELSE n1
        ELSE db_filtered

\* "if benchmark_config.ortho": the rows of ortho, the optimized ones when
\* optimized is set, the ordered ones when ordered is set
filter_ortho(db_filtered, c) ==
    LET o1 == loc(db_filtered,
                  LAMBDA r : r.physical_design_algorithm = "ortho")
        o2 == IF c.optimized
              THEN loc(o1, LAMBDA r : r.optimized = "opt") ELSE o1
        o3 == IF c.ordered
              THEN loc(o2, LAMBDA r : r.ordered = "ord") ELSE o2
    IN  IF c.ortho THEN o3 ELSE db_filtered

\* the else branch of "if benchmark_config.best": clocking schemes, then the
\* physical design algorithms
filter_schemes_and_algorithms(db_filtered, c) ==
    LET s1 == scheme_block(<< >>, db_filtered, c.twoddwave, "2ddwave")
        s2 == scheme_block(s1, db_filtered, c.use, "use")
        s3 == scheme_block(s2, db_filtered, c.res, "res")
        s4 == scheme_block(s3, db_filtered, c.esr, "esr")
        db_tmp_all_schemes == scheme_block(s4, db_filtered, c.row, "row")
        f1 == IF ~empty(db_tmp_all_schemes) THEN db_tmp_all_schemes
              ELSE db_filtered
    IN  filter_ortho(filter_nanoplacer(filter_exact(f1, c), c), c)

\* mutant of filter_library: the Bestagon block is missing
filter_library_one_only(gate_rows, c) ==
    IF c.one /\ ~c.bestagon
    THEN loc(gate_rows, LAMBDA r : r.library = "one") ELSE gate_rows

\* the two library blocks: db_filtered is all gate-level rows unless exactly
\* one of the libraries is requested
filter_library(gate_rows, c) ==
    LET g0 == concat(<< >>, gate_rows)
        g1 == IF c.one /\ ~c.bestagon
              THEN loc(gate_rows, LAMBDA r : r.library = "one") ELSE g0
    IN  IF ~c.one /\ c.bestagon
        THEN loc(gate_rows, LAMBDA r : r.library = "bestagon") ELSE g1

\* mutant of filter_best: the best layouts are not singled out
filter_best_skipped(db_filtered) == db_filtered

\* "if benchmark_config.best": the rows of the best layouts
filter_best(db_filtered) ==
    loc(db_filtered, LAMBDA r : r.clocking_scheme = "best")

\* the body of "if benchmark_config.gate": db_filtered at its end
filter_gate_level(db_tmp, c) ==
    LET gate_rows == loc(db_tmp, LAMBDA r : r.level = "gate")
        db_filtered == filter_library(gate_rows, c)
    IN  IF c.best THEN filter_best(db_filtered)
        ELSE filter_schemes_and_algorithms(db_filtered, c)

\* mutant of add_networks: the network rows are appended unconditionally
add_networks_always(db_filtered, db_networks, c) ==
    concat(db_filtered, db_networks)

\* mutant of add_networks: the network rows are appended only without gate
add_networks_without_gate(db_filtered, db_networks, c) ==
    IF c.network /\ ~c.gate THEN concat(db_filtered, db_networks)
    ELSE db_filtered

\* "if benchmark_config.network": the network rows are appended
add_networks(db_filtered, db_networks, c) ==
    IF c.network THEN concat(db_filtered, db_networks) ELSE db_filtered

\* what filter_database returns: the list [] when there is no catalog, a
\* DataFrame otherwise
filter_database(db, c) ==
    IF db = None \/ empty(db[1])
    THEN [type |-> "list", rows |-> << >>]
    ELSE LET selected_benchmarks == resolve_identifiers(c.indices_benchmarks)
             db_tmp == isin_benchmark(db[1], selected_benchmarks)
             db_networks == loc(db_tmp, LAMBDA r : r.level = "network")
             db_gates == IF c.gate THEN filter_gate_level(db_tmp, c) ELSE << >>
             db_filtered == add_networks(db_gates, db_networks, c)
         IN  [type |-> "DataFrame", rows |-> drop_duplicates(db_filtered)]

(***************************************************************************)
(* mnt.bench: Backend.get_selected_file_paths and Backend.prettify_table.   *)
(***************************************************************************)
\* the exception get_selected_file_paths raises: table["filename"] on the
\* list [] is a TypeError
get_selected_file_paths_raises(table_value) ==
    IF table_value.type = "list" THEN Some("TypeError") ELSE None

\* [str(item) for item in table["filename"].to_list()]
get_selected_file_paths(table_value) ==
    [i \in DOMAIN table_value.rows |-> table_value.rows[i].filename]

\* the exception prettify_table raises: a list has no replace
prettify_table_raises(table_value) ==
    IF table_value.type = "list" THEN Some("AttributeError") ELSE None

\* table.replace({column: mapping}): a value the mapping has is replaced
replace(value, mapping) ==
    IF \E i \in DOMAIN mapping : mapping[i][1] = value
    THEN mapping[CHOOSE i \in DOMAIN mapping : mapping[i][1] = value][2]
    ELSE value

benchmark_mapping ==
    << << <<"mux21">>, "MUX 2:1" >>, << <<"xor2">>, "XOR 2:1" >>,
       << <<"xnor2">>, "XNOR 2:1" >>, << <<"ha">>, "Half Adder" >>,
       << <<"fa">>, "Full Adder" >>,
       << <<"par", "gen">>, "Parity Generator" >>,
       << <<"par", "check">>, "Parity Check" >> >>

level_mapping == << <<"gate", "Gate-level">>, <<"network", "Network">> >>

library_mapping == << <<"one", "QCA ONE">>, <<"bestagon", "Bestagon">> >>

clocking_scheme_mapping ==
    << <<"2ddwave", "2DDWave">>, <<"use", "USE">>, <<"res", "RES">>,
       <<"esr", "ESR">>, <<"row", "ROW">> >>

physical_design_algorithm_mapping == << <<"nanoplacer", "NanoPlaceR">> >>

\* the check mark U+2713 and the ballot cross U+2717, by their code points
opt_mapping == << <<"opt", "U+2713">>, <<"unopt", "U+2717">> >>

ord_mapping == << <<"ord", "U+2713">>, <<"unord", "U+2717">> >>

\* humanize.naturalsize(n) below a megabyte: "<n> Bytes", or kilobytes with
\* one decimal, held in tenths
naturalsize(n) ==
    IF n = 1 THEN <<1, "Byte">>
    ELSE IF n < 1000 THEN <<n, "Bytes">>
    ELSE <<(n + 50) \div 100, "tenths of kB">>

\* one row after prettify_table: the values replaced, the sizes made
\* readable, the columns renamed
prettify_row(r) ==
    ("Benchmark Function" :> replace(r.benchmark, benchmark_mapping))
    @@ ("Abstraction Level" :> replace(r.level, level_mapping))
    @@ ("Gate Library" :> replace(r.library, library_mapping))
    @@ ("Clocking Scheme"
            :> replace(r.clocking_scheme, clocking_scheme_mapping))
    @@ ("Physical Design Algorithm"
            :> replace(r.physical_design_algorithm,
                       physical_design_algorithm_mapping))
    @@ ("Post-Layout Optimization" :> replace(r.optimized, opt_mapping))
    @@ ("Input-Ordering" :> replace(r.ordered, ord_mapping))
    @@ ("Layout Width" :> r.x)
    @@ ("Layout Height" :> r.y)
    @@ ("Layout Area" :> r.area)
    @@ ("File Size (uncompressed)" :> naturalsize(r.size_uncompressed))
    @@ ("File Size (compressed)" :> naturalsize(r.size_compressed))
    @@ ("Filename" :> r.filename)

\* the DataFrame prettify_table was given, after the call
prettify_table(table_value) ==
    [type |-> "DataFrame",
     rows |-> [i \in DOMAIN table_value.rows |->
                  prettify_row(table_value.rows[i])]]

\* mutant of shares_database: the selection is a view of the catalog
shares_database_as_view(db, table_value) == db # None

\* the DataFrame filter_database returned is the object Backend.database:
\* never, for the indexing by a mask, pd.concat and drop_duplicates() each
\* make a new DataFrame
shares_database(db, table_value) == FALSE

(***************************************************************************)
(* mnt.benchviewer: Backend.filter_database.                                *)
(***************************************************************************)
bv_resolve_identifier(selected_benchmarks, identifier) ==
    IF 1 <= identifier /\ identifier <= Len(bv_trindade)
    THEN Append(selected_benchmarks, bv_trindade[identifier])
    ELSE IF 1 <= identifier /\ identifier <= Len(bv_trindade) + Len(bv_fontes)
    THEN Append(selected_benchmarks, bv_fontes[identifier - Len(bv_trindade)])
    ELSE IF 1 <= identifier
            /\ identifier <= Len(bv_trindade) + Len(bv_fontes) + Len(bv_iscas)
    THEN Append(selected_benchmarks,
                bv_iscas[identifier - Len(bv_trindade) - Len(bv_fontes)])
    ELSE IF 1 <= identifier
            /\ identifier <= Len(bv_trindade) + Len(bv_fontes) + Len(bv_iscas)
                             + Len(bv_epfl)
    THEN Append(selected_benchmarks,
                bv_epfl[identifier - Len(bv_trindade) - Len(bv_fontes)
                        - Len(bv_iscas)])
    ELSE selected_benchmarks

bv_resolve_identifiers(indices_benchmarks) ==
    LET F[i \in 0..Len(indices_benchmarks)] ==
            IF i = 0 THEN << >>
            ELSE bv_resolve_identifier(F[i - 1], indices_benchmarks[i])
    IN  F[Len(indices_benchmarks)]

\* "if cond: db_tmp = db_tmp.loc[mask]; db_filtered = pd.concat([db_filtered,
\* db_tmp])" on the pair of locals
narrow_and_collect(st, cond, P(_)) ==
    IF cond
    THEN LET t == loc(st.db_tmp, P)
         IN  [db_tmp |-> t, db_filtered |-> concat(st.db_filtered, t)]
    ELSE st

\* clocking_scheme is one of the requested schemes of QCA ONE; an
\* unrequested scheme is compared with "-"
one_scheme_requested(r, c) ==
    \/ r.clocking_scheme = (IF c.twoddwave THEN "2ddwave" ELSE "-")
    \/ r.clocking_scheme = (IF c.use THEN "use" ELSE "-")
    \/ r.clocking_scheme = (IF c.res THEN "res" ELSE "-")
    \/ r.clocking_scheme = (IF c.esr THEN "esr" ELSE "-")

any_scheme(c) == c.twoddwave \/ c.use \/ c.res \/ c.esr \/ c.row

\* "if not (one | bestagon)": the abstraction levels alone
bv_filter_levels(st, c) ==
    LET a == narrow_and_collect(st, c.network /\ ~c.gate,
                                LAMBDA r : r.level = "network")
        b == narrow_and_collect(a, c.gate /\ ~c.network,
                                LAMBDA r : r.level = "gate")
    IN  narrow_and_collect(b, c.network /\ c.gate,
            LAMBDA r : r.level = "network" \/ r.level = "gate")

\* "if gate and not network"
bv_filter_gate_only(st, c) ==
    LET a == narrow_and_collect(st, c.one /\ ~c.bestagon,
                                LAMBDA r : r.library = "one")
        b == narrow_and_collect(a, c.bestagon /\ ~c.one,
                                LAMBDA r : r.library = "bestagon")
        d == narrow_and_collect(b, c.one /\ c.bestagon,
                LAMBDA r : r.library = "one" \/ r.library = "bestagon")
        s0 == IF ~any_scheme(c) THEN d ELSE st
        s1 == narrow_and_collect(s0, c.one /\ ~c.bestagon,
                LAMBDA r : one_scheme_requested(r, c) /\ r.library = "one")
        s2 == narrow_and_collect(s1, c.bestagon /\ ~c.one,
                LAMBDA r : r.clocking_scheme = "row" /\ r.library = "bestagon")
    IN  narrow_and_collect(s2, c.one /\ c.bestagon,
            LAMBDA r : \/ one_scheme_requested(r, c) /\ r.library = "one"
                       \/ /\ r.clocking_scheme = (IF c.row THEN "row" ELSE "-")
                          /\ r.library = "bestagon")

\* "if gate and network"
bv_filter_gate_and_network(st, c) ==
    LET a == narrow_and_collect(st, c.one /\ ~c.bestagon,
                LAMBDA r : r.library = "one" \/ r.level = "network")
        b == narrow_and_collect(a, c.bestagon /\ ~c.one,
                LAMBDA r : r.library = "bestagon" \/ r.level = "network")
        d == narrow_and_collect(b, c.one /\ c.bestagon,
                LAMBDA r : \/ r.library = "one" \/ r.library = "bestagon"
                           \/ r.level = "network")
        s0 == IF ~any_scheme(c) THEN d ELSE st
        s1 == narrow_and_collect(s0, c.one /\ ~c.bestagon,
                LAMBDA r : \/ one_scheme_requested(r, c) /\ r.library = "one"
                           \/ r.level = "network")
        s2 == narrow_and_collect(s1, c.bestagon /\ ~c.one,
                LAMBDA r : \/ r.clocking_scheme = "row" /\ r.library = "bestagon"
                           \/ r.level = "network")
    IN  narrow_and_collect(s2, c.one /\ c.bestagon,
            LAMBDA r : \/ one_scheme_requested(r, c) /\ r.library = "one"
                       \/ /\ r.clocking_scheme = (IF c.row THEN "row" ELSE "-")
                          /\ r.library = "bestagon"
                       \/ r.level = "network")

\* db_filtered before drop_duplicates: what the three blocks collected
bv_collected(df, c) ==
    LET selected_benchmarks == bv_resolve_identifiers(c.indices_benchmarks)
        db_tmp == isin_benchmark(df, selected_benchmarks)
        st0 == [db_tmp |-> db_tmp, db_filtered |-> << >>]
        st1 == IF ~(c.one \/ c.bestagon) THEN bv_filter_levels(st0, c)
               ELSE st0
        st2 == IF c.gate /\ ~c.network THEN bv_filter_gate_only(st1, c)
               ELSE st1
        st3 == IF c.gate /\ c.network
               THEN bv_filter_gate_and_network(st2, c) ELSE st2
    IN  st3.db_filtered

\* what filter_database returns: the filenames of the selected rows
bv_filter_database(db, c) ==
    IF db = None \/ empty(db[1])
    THEN << >>
    ELSE LET db_filtered == drop_duplicates(bv_collected(db[1], c))
         IN  [i \in DOMAIN db_filtered |-> db_filtered[i].filename]

(***************************************************************************)
(* NoSeekBytesIO: a BytesIO (its bytes fp and its position pos) and the     *)
(* number of bytes already dropped from it.                                 *)
(***************************************************************************)
\* NoSeekBytesIO(io.BytesIO())
NoSeekBytesIO ==
    [fp |-> << >>, pos |-> 0, deleted_offset |-> 0, closed |-> FALSE]

\* BytesIO.write(b) at the position: b replaces what is there and extends
\* the bytes
write(fileobj, b) ==
    [fileobj EXCEPT
        !.fp = SubSeq(fileobj.fp, 1, fileobj.pos) \o b
               \o SubSeq(fileobj.fp, fileobj.pos + Len(b) + 1,
                         Len(fileobj.fp)),
        !.pos = fileobj.pos + Len(b)]

\* mutant of tell: the position in the live buffer alone
tell_live_position(fileobj) == fileobj.pos

\* NoSeekBytesIO.tell()
tell(fileobj) == fileobj.deleted_offset + fileobj.pos

\* NoSeekBytesIO.hidden_seek(offset)
hidden_seek(fileobj, offset) == [fileobj EXCEPT !.pos = offset]

\* what NoSeekBytesIO.read() returns: the bytes from the position on
read_bytes(fileobj) ==
    SubSeq(fileobj.fp, fileobj.pos + 1, Len(fileobj.fp))

\* the buffer after NoSeekBytesIO.read(): the position is at the end
read(fileobj) ==
    [fileobj EXCEPT !.pos = IF fileobj.pos > Len(fileobj.fp) THEN fileobj.pos
                            ELSE Len(fileobj.fp)]

\* mutant of truncate_and_remember_offset: the bytes are not dropped
truncate_and_remember_offset_keeps_bytes(fileobj, size) ==
    [fileobj EXCEPT
        !.deleted_offset = fileobj.deleted_offset + fileobj.pos,
        !.pos = Len(fileobj.fp)]

\* NoSeekBytesIO.truncate_and_remember_offset(size)
truncate_and_remember_offset(fileobj, size) ==
    [fileobj EXCEPT
        !.deleted_offset = fileobj.deleted_offset + fileobj.pos,
        !.pos = 0,
        !.fp = SubSeq(fileobj.fp, 1, size)]

\* NoSeekBytesIO.close()
close(fileobj) == [fileobj EXCEPT !.closed = TRUE]

(***************************************************************************)
(* zipfile.ZipFile in mode "w" on a file object that cannot seek, and the   *)
(* source archive.                                                          *)
(***************************************************************************)
\* the member "<dir>/<name>" of an archive
in_dir(dir, filename) ==
    [dir |-> dir, stem |-> filename.stem, ext |-> filename.ext]

\* Path(individual_file).name: the final component of the path
path_name(individual_file) ==
    [stem |-> individual_file.stem, ext |-> individual_file.ext]

\* the bytes of a member of the source archive: no two members share them
member_bytes(name) ==
    IF "dir" \in DOMAIN name THEN <<name.dir>> \o name.stem ELSE name.stem

\* mutant of read_raises: a name the archive lacks reads as an empty member
read_raises_never(namelist, name) == None

\* the exception mntbench_all_zip.read(name) raises: KeyError for a name the
\* archive lacks, None when it returns
read_raises(namelist, name) ==
    IF \E i \in DOMAIN namelist : namelist[i] = name THEN None
    ELSE Some("KeyError")

\* ZipFile(fileobj, mode="w"): start_dir is fileobj.tell()
ZipFile(fileobj) ==
    [filelist |-> << >>, start_dir |-> tell(fileobj), closed |-> FALSE]

\* what writestr writes for a member: the local file header, the deflated
\* data, and the data descriptor of a stream that cannot seek
member_units(name, data) ==
    << [kind |-> "local", filename |-> name] >>
    \o [i \in DOMAIN data |-> [kind |-> "deflated", byte |-> data[i]]]
    \o << [kind |-> "descriptor", size |-> Len(data)] >>

\* zf.writestr(name, data): the pair of zf and fileobj after it
writestr(zf, fileobj, name, data) ==
    LET header_offset == tell(fileobj)
        written == write(fileobj, member_units(name, data))
    IN  [zf |-> [zf EXCEPT
                    !.filelist = Append(zf.filelist,
                                        [filename |-> name,
                                         header_offset |-> header_offset]),
                    !.start_dir = tell(written)],
         fileobj |-> written]

\* what ZipFile.close() writes: the central directory and its end record
end_record_units(zf, fileobj) ==
    [i \in DOMAIN zf.filelist |->
        [kind |-> "central", filename |-> zf.filelist[i].filename,
         header_offset |-> zf.filelist[i].header_offset]]
    \o << [kind |-> "end", entries |-> Len(zf.filelist),
           offset |-> zf.start_dir] >>

\* ZipFile.__exit__: close() writes the end record once and leaves a file
\* object that was passed in open
zf_exit(zf, fileobj) ==
    IF zf.closed THEN [zf |-> zf, fileobj |-> fileobj]
    ELSE [zf |-> [zf EXCEPT !.closed = TRUE],
          fileobj |-> write(fileobj, end_record_units(zf, fileobj))]

(***************************************************************************)
(* Backend.generate_zip_ephemeral_chunks.  A generator is a record: pc is   *)
(* where its frame stands, i the index of the loop, sent the chunks it has  *)
(* yielded, raised the exception that ended it.                             *)
(***************************************************************************)
\* the call: a generator whose body has not started
generate_zip_ephemeral_chunks(filenames) ==
    [pc |-> "created", filenames |-> filenames, i |-> 0, fileobj |-> None,
     zf |-> None, sent |-> << >>, raised |-> None]

\* "fileobj.hidden_seek(0); yield fileobj.read()": the frame stops at pc
yield_buffer(G, pc_at_yield) ==
    LET sought == hidden_seek(G.fileobj[1], 0)
    IN  [G EXCEPT !.sent = Append(G.sent, read_bytes(sought)),
                  !.fileobj = Some(read(sought)),
                  !.pc = pc_at_yield]

\* an exception leaves the with block: ZipFile.__exit__ runs, the exception
\* ends the generator and the statements after the block are not reached
leave_with_block(G, exception, pc_after) ==
    LET left == zf_exit(G.zf[1], G.fileobj[1])
    IN  [G EXCEPT !.zf = Some(left.zf), !.fileobj = Some(left.fileobj),
                  !.raised = exception, !.pc = pc_after]

\* mutant of write_member: the member keeps its full path
write_member_full_path(G, individual_file) ==
    LET w == writestr(G.zf[1], G.fileobj[1], individual_file,
                      member_bytes(individual_file))
    IN  [G EXCEPT !.zf = Some(w.zf), !.fileobj = Some(w.fileobj)]

\* zf.writestr(individual_file_as_path.name, data=mntbench_all_zip.read(
\* individual_file), ...)
write_member(G, individual_file) ==
    LET w == writestr(G.zf[1], G.fileobj[1], path_name(individual_file),
                      member_bytes(individual_file))
    IN  [G EXCEPT !.zf = Some(w.zf), !.fileobj = Some(w.fileobj)]

\* mutant of loop_from: the last chunk is yielded inside the with block,
\* before the writer is closed
loop_from_final_inside_with(G, zip) ==
    IF G.i > Len(G.filenames)
    THEN yield_buffer(G, "at_final_yield")
    ELSE IF zip = None
    THEN leave_with_block(G, Some("AssertionError"), "raised")
    ELSE IF read_raises(zip[1], G.filenames[G.i]) # None
    THEN leave_with_block(G, read_raises(zip[1], G.filenames[G.i]), "raised")
    ELSE yield_buffer(write_member(G, G.filenames[G.i]), "at_member_yield")

\* the frame runs from the head of the for loop, with i the index of the
\* next name, to its next yield or to the exception that ends it
loop_from(G, zip) ==
    IF G.i > Len(G.filenames)
    THEN LET left == zf_exit(G.zf[1], G.fileobj[1])
         IN  yield_buffer([G EXCEPT !.zf = Some(left.zf),
                                    !.fileobj = Some(left.fileobj)],
                          "at_final_yield")
    ELSE IF zip = None
    THEN leave_with_block(G, Some("AssertionError"), "raised")
    ELSE IF read_raises(zip[1], G.filenames[G.i]) # None
    THEN leave_with_block(G, read_raises(zip[1], G.filenames[G.i]), "raised")
    ELSE yield_buffer(write_member(G, G.filenames[G.i]), "at_member_yield")

\* next(generator): the frame runs to its next yield, returns or raises
resume(G, zip) ==
    CASE G.pc = "created" ->
            loop_from([G EXCEPT !.fileobj = Some(NoSeekBytesIO),
                                !.zf = Some(ZipFile(NoSeekBytesIO)),
                                !.i = 1], zip)
      [] G.pc = "at_member_yield" ->
            loop_from([G EXCEPT
                          !.fileobj = Some(truncate_and_remember_offset(
                                               G.fileobj[1], 0)),
                          !.i = G.i + 1], zip)
      [] G.pc = "at_final_yield" ->
            [G EXCEPT !.fileobj = Some(close(G.fileobj[1])),
                      !.pc = "finished"]
      [] OTHER -> G

\* generator.close(), also when the generator is collected: GeneratorExit
\* is raised at the yield where the frame stands
close_generator(G) ==
    CASE G.pc = "created" -> [G EXCEPT !.pc = "closed"]
      [] G.pc = "at_member_yield" -> leave_with_block(G, None, "closed")
      [] G.pc = "at_final_yield" -> [G EXCEPT !.pc = "closed"]
      [] OTHER -> G

\* the response iterates the generator until it has ended
RECURSIVE exhaust(_, _)
exhaust(G, zip) ==
    IF G.pc \in {"created", "at_member_yield", "at_final_yield"}
    THEN exhaust(resume(G, zip), zip)
    ELSE G

(***************************************************************************)
(* Backend.read_mntbench_all_zip.  A call is a record: its arguments, what  *)
(* it meets (the installed version, the file at huge_zip_path, the releases *)
(* GitHub lists, the answers typed at the prompt), what it has done so far  *)
(* (prompts asked, requests sent to GitHub, downloads) and its result.      *)
(***************************************************************************)
\* a file that is a zip archive with the members of namelist
archive_file(namelist) == [zip |-> TRUE, namelist |-> namelist]

\* a file that is no zip archive
other_file == [zip |-> FALSE]

\* the condition of "Searching for local benchmarks...": mnt.bench looks at
\* the local file only if (not skip_question or test), mnt.benchviewer always
found_locally(package, call) ==
    /\ package = "bench" => (~call.skip_question \/ call.test)
    /\ call.file # None
    /\ call.file[1].zip
    /\ Len(call.file[1].namelist) # 0

\* the exception the search raises: ZipFile(huge_zip_path) on a file that is
\* no archive
search_raises(package, call) ==
    IF /\ package = "bench" => (~call.skip_question \/ call.test)
       /\ call.file # None
       /\ ~call.file[1].zip
    THEN Some("BadZipFile") ELSE None

\* "response.lower() == 'y' or not response"
accepts(response) == lower(response) = "y" \/ response = ""

\* handle_downloading_benchmarks: the asset is written to huge_zip_path
handle_downloading_benchmarks(call, asset) ==
    [call EXCEPT !.file = Some(asset.content), !.downloads = @ + 1]

\* "for asset in assets" from the k-th asset on: once an asset is named
\* MNTBench_all.zip, that asset and every asset after it is offered, until
\* one is downloaded
RECURSIVE offer_assets(_, _, _)
offer_assets(call, assets, k) ==
    IF k > Len(assets) THEN call
    ELSE LET found == call.version_found
                          \/ assets[k].name = "MNTBench_all.zip"
             seen == [call EXCEPT !.version_found = found]
             asked == [seen EXCEPT !.asked = @ + 1]
         IN  IF ~found THEN offer_assets(seen, assets, k + 1)
             ELSE IF call.skip_question
             THEN handle_downloading_benchmarks(seen, assets[k])
             ELSE IF accepts(call.responses[call.asked + 1])
             THEN handle_downloading_benchmarks(asked, assets[k])
             ELSE offer_assets(asked, assets, k + 1)

\* "for possible_version in available_versions" from the n-th version on: a
\* release not newer than the installed module is requested and its assets
\* are gone through; the loop ends with the first release that has the asset
RECURSIVE try_versions(_, _)
try_versions(call, n) ==
    IF n > Len(call.releases) THEN call
    ELSE IF call.module_version[1] >= call.releases[n].name
    THEN LET offered == offer_assets([call EXCEPT !.requests = @ + 1],
                                     call.releases[n].assets, 1)
         IN  IF offered.version_found THEN offered
             ELSE try_versions(offered, n + 1)
    ELSE try_versions(call, n + 1)

\* the exception the with block at the end raises: open() on a missing
\* file, ZipFile on a file that is no archive
open_raises(call) ==
    IF call.file = None THEN Some("FileNotFoundError")
    ELSE IF ~call.file[1].zip THEN Some("BadZipFile")
    ELSE None

(***************************************************************************)
(* The inputs: archives, side-tables of dimensions, and forms.              *)
(***************************************************************************)
\* an archive of mnt.bench: every library, clocking scheme, algorithm and
\* flag, for a requested and for another benchmark, and members that are no
\* benchmark file
ArchiveAll ==
    << fgl(<<"mux21", "ONE", "2DDWave", "exact", "UnOpt", "UnOrd">>),
       fgl(<<"mux21", "ONE", "USE", "ortho", "Opt", "Ord">>),
       fgl(<<"mux21", "ONE", "USE", "ortho", "UnOpt", "Ord">>),
       fgl(<<"mux21", "ONE", "RES", "ortho", "Opt", "UnOrd">>),
       fgl(<<"mux21", "ONE", "RES", "nanoplacer", "Opt", "UnOrd">>),
       fgl(<<"mux21", "ONE", "ESR", "nanoplacer", "UnOpt", "UnOrd">>),
       fgl(<<"mux21", "Bestagon", "ROW", "ortho", "Opt", "UnOrd">>),
       fgl(<<"mux21", "Bestagon", "ROW", "exact", "UnOpt", "UnOrd">>),
       fgl(<<"mux21", "ONE", "BEST">>),
       fgl(<<"mux21", "Bestagon", "BEST">>),
       v(<<"mux21">>),
       [stem |-> <<"README">>, ext |-> "md"],
       fgl(<<"par", "gen", "ONE", "2DDWave", "ortho", "Opt", "Ord">>),
       fgl(<<"par", "gen", "Bestagon", "ROW", "nanoplacer", "Opt", "UnOrd">>),
       fgl(<<"par", "gen", "ONE", "BEST">>),
       v(<<"par", "gen">>),
       v(<<"clpl">>) >>

\* only Bestagon layouts of mux21, only the network of par_gen
ArchiveBestagon ==
    << fgl(<<"mux21", "Bestagon", "ROW", "exact", "UnOpt", "UnOrd">>),
       fgl(<<"mux21", "Bestagon", "BEST">>),
       v(<<"par", "gen">>) >>

\* the two files of the tests, and the network of mux21
ArchiveTests ==
    << fgl(<<"mux21", "ONE", "2DDWave", "exact", "UnOpt", "UnOrd">>),
       v(<<"clpl">>),
       v(<<"mux21">>) >>

\* a name with too few tokens for parse_data
ArchiveMalformed ==
    << v(<<"mux21">>), fgl(<<"mux21">>) >>

\* layout_dimensions.json: a list of one-file dicts
Dimensions ==
    << [f \in {fgl(<<"mux21", "ONE", "2DDWave", "exact", "UnOpt", "UnOrd">>)}
          |-> [x |-> 3, y |-> 4, size_uncompressed |-> 3513,
               size_compressed |-> 517]],
       [f \in {v(<<"clpl">>)}
          |-> [size_uncompressed |-> 682, size_compressed |-> 277]] >>

\* a layout_dimensions.json that gives a width and a height for a network
DimensionsOfNetwork ==
    << [f \in {v(<<"clpl">>)}
          |-> [x |-> 2, y |-> 5, size_uncompressed |-> 682,
               size_compressed |-> 277]] >>

\* archives of mnt.benchviewer: names end in <LIB>_<SCHEME>
bv_ArchiveAll ==
    << fgl(<<"mux21", "ONE", "2DDWave">>),
       fgl(<<"mux21", "ONE", "USE">>),
       fgl(<<"mux21", "ONE", "RES">>),
       fgl(<<"mux21", "ONE", "ESR">>),
       fgl(<<"mux21", "Bestagon", "ROW">>),
       v(<<"mux21">>),
       [stem |-> <<"README">>, ext |-> "md"],
       fgl(<<"par", "gen", "ONE", "2DDWave">>),
       fgl(<<"par", "gen", "Bestagon", "ROW">>),
       v(<<"par", "gen">>),
       v(<<"clpl">>) >>

bv_ArchiveBestagon ==
    << fgl(<<"mux21", "Bestagon", "ROW">>), v(<<"par", "gen">>) >>

bv_ArchiveOne ==
    << fgl(<<"mux21", "ONE", "USE">>), v(<<"mux21">>) >>

\* the servers the model starts: a backend, its archive, its side-table
Installations ==
    { [backend |-> "bench", namelist |-> << >>, dims |-> << >>],
      [backend |-> "bench", namelist |-> ArchiveAll, dims |-> Dimensions],
      [backend |-> "bench", namelist |-> ArchiveBestagon, dims |-> << >>],
      [backend |-> "bench", namelist |-> ArchiveTests, dims |-> Dimensions],
      [backend |-> "bench", namelist |-> ArchiveMalformed, dims |-> << >>],
      [backend |-> "benchviewer", namelist |-> << >>, dims |-> << >>],
      [backend |-> "benchviewer", namelist |-> bv_ArchiveAll, dims |-> << >>],
      [backend |-> "benchviewer", namelist |-> bv_ArchiveBestagon,
       dims |-> << >>],
      [backend |-> "benchviewer", namelist |-> bv_ArchiveOne, dims |-> << >>],
      [backend |-> "benchviewer", namelist |-> ArchiveMalformed,
       dims |-> << >>] }

\* form keys, character by character
K_all_benchmarks == <<"a", "l", "l", "_", "b", "e", "n", "c", "h", "m", "a", "r", "k", "s">>
K_selectBench_1 == <<"s", "e", "l", "e", "c", "t", "B", "e", "n", "c", "h", "_", "1">>
K_selectBench_2 == <<"s", "e", "l", "e", "c", "t", "B", "e", "n", "c", "h", "_", "2">>
K_selectBench_3 == <<"s", "e", "l", "e", "c", "t", "B", "e", "n", "c", "h", "_", "3">>
K_selectBench_4 == <<"s", "e", "l", "e", "c", "t", "B", "e", "n", "c", "h", "_", "4">>
K_selectBench_6 == <<"s", "e", "l", "e", "c", "t", "B", "e", "n", "c", "h", "_", "6">>
K_selectBench_44 == <<"s", "e", "l", "e", "c", "t", "B", "e", "n", "c", "h", "_", "4", "4">>
K_selectBench_0 == <<"s", "e", "l", "e", "c", "t", "B", "e", "n", "c", "h", "_", "0">>
K_select_12_3 == <<"s", "e", "l", "e", "c", "t", "_", "1", "2", "_", "3">>
K_selectBench_07 == <<"s", "e", "l", "e", "c", "t", "B", "e", "n", "c", "h", "_", "0", "7">>
K_selectAll == <<"s", "e", "l", "e", "c", "t", "A", "l", "l">>
K_bench_5 == <<"b", "e", "n", "c", "h", "_", "5">>
K_gate == <<"g", "a", "t", "e">>
K_network == <<"n", "e", "t", "w", "o", "r", "k">>
K_one == <<"o", "n", "e">>
K_bestagon == <<"b", "e", "s", "t", "a", "g", "o", "n">>
K_twoddwave == <<"t", "w", "o", "d", "d", "w", "a", "v", "e">>
K_use == <<"u", "s", "e">>
K_res == <<"r", "e", "s">>
K_esr == <<"e", "s", "r">>
K_row == <<"r", "o", "w">>
K_best_layout == <<"b", "e", "s", "t", "-", "l", "a", "y", "o", "u", "t">>
K_exact == <<"e", "x", "a", "c", "t">>
K_ortho == <<"o", "r", "t", "h", "o">>
K_nanoplacer == <<"n", "a", "n", "o", "p", "l", "a", "c", "e", "r">>
K_post_layout == <<"p", "o", "s", "t", "-", "l", "a", "y", "o", "u", "t">>
K_input_ordering == <<"i", "n", "p", "u", "t", "-", "o", "r", "d", "e", "r", "i", "n", "g">>

\* the fields of the selection form of mnt.bench, in page order: benchmark
\* 6 (par_gen), benchmark 1 (mux21), an identifier past the last benchmark,
\* and the fifteen toggles
FormFields ==
    << K_selectBench_6, K_selectBench_1, K_selectBench_44, K_gate, K_network,
       K_one, K_bestagon, K_twoddwave, K_use, K_res, K_esr, K_row,
       K_best_layout, K_exact, K_ortho, K_nanoplacer, K_post_layout,
       K_input_ordering >>

\* the fields of the selection form of mnt.benchviewer
bv_FormFields ==
    << K_selectBench_6, K_selectBench_1, K_selectBench_44, K_gate, K_network,
       K_one, K_bestagon, K_twoddwave, K_use, K_res, K_esr, K_row >>

\* the form of test_prepare_form_input
TestForm ==
    << K_all_benchmarks, K_selectBench_1, K_selectBench_2, K_selectBench_3,
       K_selectBench_4, K_gate, K_one >>

\* the fields of `fields` at the positions S, in page order
submitted(fields, S) ==
    [j \in 1..Cardinality(S) |->
        fields[CHOOSE i \in S : Cardinality({ h \in S : h < i }) = j - 1]]

\* the forms a browser can submit: at most MaxForm of the fields
Forms(fields) ==
    { submitted(fields, S) :
        S \in { T \in SUBSET DOMAIN fields : Cardinality(T) <= MaxForm } }
    \cup {TestForm}

\* every key the forms given to prepare_form_input alone are made of
FormKeys ==
    { K_all_benchmarks, K_selectBench_1, K_selectBench_2, K_selectBench_3,
      K_selectBench_4, K_selectBench_6, K_selectBench_44, K_selectBench_0,
      K_select_12_3, K_selectBench_07, K_selectAll, K_bench_5, K_gate,
      K_network, K_one, K_bestagon, K_twoddwave, K_use, K_res, K_esr, K_row,
      K_best_layout, K_exact, K_ortho, K_nanoplacer, K_post_layout,
      K_input_ordering }

\* a dict has each key once
distinct_keys(form) ==
    \A i, j \in DOMAIN form : form[i] = form[j] => i = j

\* the forms of at most MaxKeys keys, in any order, and the test's form
KeyForms ==
    { form \in UNION { [1..n -> FormKeys] : n \in 0..MaxKeys } :
        distinct_keys(form) }
    \cup {TestForm}

\* the tokens names are constructed from, each with its lower case
NameBenchmarks ==
    { << [token |-> "mux21", lowered |-> "mux21"] >>,
      << [token |-> "par", lowered |-> "par"],
         [token |-> "gen", lowered |-> "gen"] >>,
      << [token |-> "C17", lowered |-> "c17"] >> }

NameLibraries ==
    { [token |-> "ONE", lowered |-> "one"],
      [token |-> "Bestagon", lowered |-> "bestagon"] }

NameSchemes ==
    { [token |-> "2DDWave", lowered |-> "2ddwave"],
      [token |-> "USE", lowered |-> "use"],
      [token |-> "RES", lowered |-> "res"],
      [token |-> "ESR", lowered |-> "esr"],
      [token |-> "ROW", lowered |-> "row"] }

NameAlgorithms ==
    { [token |-> "exact", lowered |-> "exact"],
      [token |-> "ortho", lowered |-> "ortho"],
      [token |-> "NanoPlaceR", lowered |-> "nanoplacer"] }

NameOptimized ==
    { [token |-> "Opt", lowered |-> "opt"],
      [token |-> "UnOpt", lowered |-> "unopt"] }

NameOrdered ==
    { [token |-> "Ord", lowered |-> "ord"],
      [token |-> "UnOrd", lowered |-> "unord"] }

NameBest == [token |-> "BEST", lowered |-> "best"]

NameCosts ==
    { [token |-> "area", lowered |-> "area"],
      [token |-> "wires", lowered |-> "wires"],
      [token |-> "none", lowered |-> "none"] }

\* the suffixes of the gate-level names: <LIB>_<SCHEME>_<ALG>_<OPT>_<ORD>
\* and <LIB>_BEST
NameSuffixes ==
    { <<l, s, a, o, r>> : l \in NameLibraries, s \in NameSchemes,
                          a \in NameAlgorithms, o \in NameOptimized,
                          r \in NameOrdered }
    \cup { <<l, NameBest>> : l \in NameLibraries }

\* the suffixes of the names of test_mnt_bench.py, which end in <COST>
NameSuffixesWithCost ==
    { <<l, s, a, o, r, c>> :
        l \in {[token |-> "ONE", lowered |-> "one"]},
        s \in NameSchemes,
        a \in {[token |-> "exact", lowered |-> "exact"]},
        o \in NameOptimized, r \in NameOrdered, c \in NameCosts }

tokens_of(parts) == [i \in DOMAIN parts |-> parts[i].token]

lowered_of(parts) == [i \in DOMAIN parts |-> parts[i].lowered]

\* "<benchmark>_<suffix>.fgl"
gate_name(benchmark, suffix) ==
    fgl(tokens_of(benchmark) \o tokens_of(suffix))

\* "<benchmark>.v"
network_name(benchmark) == v(tokens_of(benchmark))

\* the names parse_data is called with: the names of the catalog, the names
\* that end in a cost, and names that are not of the catalog
ParseNames ==
    { gate_name(b, x) : b \in NameBenchmarks, x \in NameSuffixes }
    \cup { network_name(b) : b \in NameBenchmarks }
    \cup { gate_name(b, x) : b \in NameBenchmarks,
                              x \in NameSuffixesWithCost }
    \cup { fgl(<<"mux21">>), v(<<"clpl">>),
           [stem |-> <<"README">>, ext |-> "md"] }

\* the source archive of the restreaming: the two members the tests ask
\* for, and a member in a directory
ZipSource ==
    << fgl(<<"mux21", "ONE", "BEST">>), fgl(<<"xor2", "ONE", "BEST">>),
       in_dir("layouts", fgl(<<"mux21", "ONE", "BEST">>)) >>

\* the name the tests ask for that no archive has
not_existing_file == fgl(<<"not", "existing", "file">>)

\* the lists of at most MaxNames names, present or absent, in any order
NameLists ==
    UNION { [1..n -> Range(ZipSource) \cup {not_existing_file}] :
              n \in 0..MaxNames }

\* the lists of fewer than MaxNames names, for the requests in flight at
\* the same time
ConcurrentNameLists ==
    UNION { [1..n -> Range(ZipSource) \cup {not_existing_file}] :
              n \in 0..(MaxNames - 1) }

\* the assets of the releases: the archive of the benchmarks, and a file of
\* another name
zip_asset ==
    [name |-> "MNTBench_all.zip", content |-> archive_file(ZipSource)]

other_asset == [name |-> "checksums.txt", content |-> other_file]

\* what GitHub lists, newest first: no tag; one release with the archive; a
\* release without it before one with it and another asset; only a release
\* newer than the installed module
Releases ==
    { << >>,
      << [name |-> 1, assets |-> << zip_asset >>] >>,
      << [name |-> 2, assets |-> << other_asset >>],
         [name |-> 1, assets |-> << zip_asset, other_asset >>] >>,
      << [name |-> 3, assets |-> << zip_asset >>] >> }

\* the files at huge_zip_path: none, an archive without members, an archive
LocalFiles == { None, Some(archive_file(<< >>)), Some(archive_file(ZipSource)) }

\* what the user types at the prompts, in order
Responses == [1..2 -> {"Y", "n", ""}]

\* the calls of read_mntbench_all_zip: mnt.benchviewer has no parameter test
ReadCalls(package) ==
    { [file |-> file, local_file |-> file, skip_question |-> skip_question,
       test |-> test, module_version |-> module_version,
       github_answers |-> github_answers, releases |-> releases,
       responses |-> responses, version_found |-> FALSE, asked |-> 0,
       requests |-> 0, downloads |-> 0, raised |-> None, returned |-> None] :
        file \in LocalFiles, skip_question \in BOOLEAN,
        test \in (IF package = "bench" THEN BOOLEAN ELSE {FALSE}),
        module_version \in {None, Some(2)}, github_answers \in BOOLEAN,
        releases \in Releases, responses \in Responses }

(***************************************************************************)
(* The server.                                                              *)
(***************************************************************************)
\* a Backend whose archive has been read (read_mntbench_all_zip returned
\* True) and whose side-table is loaded; the catalog is not built yet
Init ==
    \E inst \in Installations :
        /\ backend = inst.backend
        /\ mntbench_all_zip = Some(inst.namelist)
        /\ layout_dimensions = Some(inst.dims)
        /\ database = None
        /\ form_data = None
        /\ prepared_data = None
        /\ table = None
        /\ file_paths = None
        /\ error = None
        /\ parse_data_filename = None
        /\ parse_data_result = None
        /\ generators = << >>
        /\ read_call = None
        /\ pc = "constructed"

\* the exception init_database lets through
init_database_raises ==
    IF backend = "bench" THEN create_database_raises(mntbench_all_zip[1])
    ELSE bv_create_database_raises(mntbench_all_zip[1])

\* Backend.init_database, called by Server.__init__: the catalog is built
InitDatabase ==
    /\ pc = "constructed"
    /\ init_database_raises = None
    /\ database' = Some(IF backend = "bench"
                        THEN create_database(layout_dimensions[1],
                                             mntbench_all_zip[1])
                        ELSE bv_create_database(mntbench_all_zip[1]))
    /\ pc' = "serving"
    /\ UNCHANGED << read_call,
                    file_paths, error, generators, parse_data_filename,
                    parse_data_result,
                    backend, mntbench_all_zip, layout_dimensions, form_data,
                    prepared_data, table >>

\* Backend.init_database raises: the server does not start
InitDatabaseFails ==
    /\ pc = "constructed"
    /\ init_database_raises # None
    /\ pc' = "failed"
    /\ UNCHANGED << read_call,
                    file_paths, error, generators, parse_data_filename,
                    parse_data_result,
                    backend, mntbench_all_zip, layout_dimensions, database,
                    form_data, prepared_data, table >>

\* a request arrives and its handler calls prepare_form_input on the form
PrepareFormInput ==
    /\ pc = "serving"
    /\ \E form \in Forms(IF backend = "bench" THEN FormFields
                         ELSE bv_FormFields) :
          /\ form_data' = Some(form)
          /\ prepared_data' = Some(IF backend = "bench"
                                   THEN prepare_form_input(form)
                                   ELSE bv_prepare_form_input(form))
    /\ pc' = "prepared"
    /\ UNCHANGED << read_call,
                    file_paths, error, generators, parse_data_filename,
                    parse_data_result,
                    backend, mntbench_all_zip, layout_dimensions, database,
                    table >>

\* mnt.bench: the handler calls get_updated_table, that is filter_database
GetUpdatedTable ==
    /\ pc = "prepared"
    /\ backend = "bench"
    /\ table' = Some(filter_database(database, prepared_data[1]))
    /\ pc' = "filtered"
    /\ UNCHANGED << read_call,
                    file_paths, error, generators, parse_data_filename,
                    parse_data_result,
                    backend, mntbench_all_zip, layout_dimensions, database,
                    form_data, prepared_data >>

\* mnt.benchviewer: the handler calls get_selected_file_paths, that is
\* filter_database
GetSelectedFilePaths ==
    /\ pc = "prepared"
    /\ backend = "benchviewer"
    /\ table' = Some(bv_filter_database(database, prepared_data[1]))
    /\ pc' = "filtered"
    /\ UNCHANGED << read_call,
                    file_paths, error, generators, parse_data_filename,
                    parse_data_result,
                    backend, mntbench_all_zip, layout_dimensions, database,
                    form_data, prepared_data >>

\* mnt.bench: get_num_benchmarks and download_data call
\* get_selected_file_paths on the table; its exception ends the handler
SelectFilePaths ==
    /\ pc = "filtered"
    /\ backend = "bench"
    /\ IF get_selected_file_paths_raises(table[1]) = None
       THEN /\ file_paths' = Some(get_selected_file_paths(table[1]))
            /\ error' = None
            /\ pc' = "selected"
       ELSE /\ file_paths' = None
            /\ error' = get_selected_file_paths_raises(table[1])
            /\ pc' = "raised"
    /\ UNCHANGED << read_call,
                    backend, mntbench_all_zip, layout_dimensions, database,
                    form_data, prepared_data, table, generators,
                    parse_data_filename, parse_data_result >>

\* mnt.bench: prettify_table rewrites the table in place, in
\* get_num_benchmarks after the file paths, in download_data's submitTable
\* branch right after the filter, where its exception is caught and shown
PrettifyTable ==
    /\ pc \in {"filtered", "selected"}
    /\ backend = "bench"
    /\ IF prettify_table_raises(table[1]) = None
       THEN /\ table' = Some(prettify_table(table[1]))
            /\ database' = IF shares_database(database, table[1])
                           THEN Some(prettify_table(table[1]).rows)
                           ELSE database
            /\ error' = None
            /\ pc' = "prettified"
       ELSE /\ table' = table
            /\ database' = database
            /\ error' = prettify_table_raises(table[1])
            /\ pc' = "error_page"
    /\ UNCHANGED << read_call,
                    backend, mntbench_all_zip, layout_dimensions, form_data,
                    prepared_data, file_paths, generators,
                    parse_data_filename, parse_data_result >>

\* mnt.bench: download_data answers a selection that is not empty with the
\* generator over its file paths, and the response is sent chunk by chunk
Download ==
    /\ pc = "selected"
    /\ backend = "bench"
    /\ file_paths[1] # << >>
    /\ generators' =
           << exhaust(generate_zip_ephemeral_chunks(file_paths[1]),
                      mntbench_all_zip) >>
    /\ pc' = "downloaded"
    /\ UNCHANGED << read_call,
                    backend, mntbench_all_zip, layout_dimensions, database,
                    form_data, prepared_data, table, file_paths, error,
                    parse_data_filename, parse_data_result >>

\* the handler returns: the locals of the request are gone
EndRequest ==
    /\ pc \in {"filtered", "selected", "prettified", "downloaded", "raised",
               "error_page"}
    /\ form_data' = None
    /\ prepared_data' = None
    /\ table' = None
    /\ file_paths' = None
    /\ error' = None
    /\ generators' = << >>
    /\ pc' = "serving"
    /\ UNCHANGED << read_call,
                    parse_data_filename, parse_data_result,
                    backend, mntbench_all_zip, layout_dimensions, database >>

\* a fresh Backend(), as test_prepare_form_input makes it
FormInit ==
    /\ backend \in {"bench", "benchviewer"}
    /\ mntbench_all_zip = None
    /\ layout_dimensions = None
    /\ database = None
    /\ form_data = None
    /\ prepared_data = None
    /\ table = None
    /\ file_paths = None
    /\ error = None
    /\ parse_data_filename = None
    /\ parse_data_result = None
    /\ generators = << >>
    /\ read_call = None
    /\ pc = "constructed"

\* prepare_form_input called on the fresh Backend with a form
DecodeForm ==
    /\ pc = "constructed"
    /\ mntbench_all_zip = None
    /\ \E form \in KeyForms :
          /\ form_data' = Some(form)
          /\ prepared_data' = Some(IF backend = "bench"
                                   THEN prepare_form_input(form)
                                   ELSE bv_prepare_form_input(form))
    /\ pc' = "decoded"
    /\ UNCHANGED << read_call,
                    file_paths, error, generators, parse_data_filename,
                    parse_data_result,
                    backend, mntbench_all_zip, layout_dimensions, database,
                    table >>

\* a Backend whose archive has been read and a call of
\* generate_zip_ephemeral_chunks on it, as test_streaming_zip makes them
ZipInit ==
    /\ backend = "bench"
    /\ mntbench_all_zip = Some(ZipSource)
    /\ layout_dimensions = None
    /\ database = None
    /\ form_data = None
    /\ prepared_data = None
    /\ table = None
    /\ file_paths = None
    /\ error = None
    /\ parse_data_filename = None
    /\ parse_data_result = None
    /\ \E filenames \in NameLists :
          generators = << generate_zip_ephemeral_chunks(filenames) >>
    /\ read_call = None
    /\ pc = "streaming"

\* two calls of generate_zip_ephemeral_chunks on one Backend, each with its
\* list of names: the generators of two requests in flight
ConcurrentInit ==
    /\ backend = "bench"
    /\ mntbench_all_zip = Some(ZipSource)
    /\ layout_dimensions = None
    /\ database = None
    /\ form_data = None
    /\ prepared_data = None
    /\ table = None
    /\ file_paths = None
    /\ error = None
    /\ parse_data_filename = None
    /\ parse_data_result = None
    /\ \E first \in ConcurrentNameLists, second \in ConcurrentNameLists :
          generators = << generate_zip_ephemeral_chunks(first),
                          generate_zip_ephemeral_chunks(second) >>
    /\ read_call = None
    /\ pc = "streaming"

\* mutant of pull: the buffer is one object that all generators write to
pull_shared_buffer(gens, g, zip) ==
    LET pulled == resume(gens[g], zip)
    IN  [h \in DOMAIN gens |->
            IF h = g THEN pulled
            ELSE IF gens[h].fileobj # None /\ pulled.fileobj # None
            THEN [gens[h] EXCEPT !.fileobj = pulled.fileobj]
            ELSE gens[h]]

\* next() on generator g: its frame runs on its own locals (fileobj and zf
\* are made in the body, l.244-246) and reads the source archive
pull(gens, g, zip) == [gens EXCEPT ![g] = resume(@, zip)]

\* the consumer pulls the next chunk of generator g
Pull(g) ==
    /\ generators[g].pc \in {"created", "at_member_yield", "at_final_yield"}
    /\ generators' = pull(generators, g, mntbench_all_zip)
    /\ UNCHANGED << read_call,
                    backend, mntbench_all_zip, layout_dimensions, database,
                    form_data, prepared_data, table, file_paths, error,
                    parse_data_filename, parse_data_result, pc >>

\* the consumer gives generator g up before it has ended
Abandon(g) ==
    /\ generators[g].pc \in {"created", "at_member_yield", "at_final_yield"}
    /\ generators' = [generators EXCEPT ![g] = close_generator(@)]
    /\ UNCHANGED << read_call,
                    backend, mntbench_all_zip, layout_dimensions, database,
                    form_data, prepared_data, table, file_paths, error,
                    parse_data_filename, parse_data_result, pc >>

\* a Backend with its side-table and a name to parse, as test_parse_data
\* makes them
ParseInit ==
    /\ backend = "bench"
    /\ mntbench_all_zip = None
    /\ layout_dimensions \in {Some(<< >>), Some(Dimensions),
                             Some(DimensionsOfNetwork)}
    /\ database = None
    /\ form_data = None
    /\ prepared_data = None
    /\ table = None
    /\ file_paths = None
    /\ error = None
    /\ generators = << >>
    /\ parse_data_filename \in { Some(name) : name \in ParseNames }
    /\ parse_data_result = None
    /\ read_call = None
    /\ pc = "parsing"

\* backend.parse_data(filename) returns or raises
ParseData ==
    /\ pc = "parsing"
    /\ parse_data_result' =
          Some(IF parse_data_raises(parse_data_filename[1]) = None
               THEN [raised |-> None,
                     returned |-> Some(parse_data(layout_dimensions[1],
                                                  parse_data_filename[1]))]
               ELSE [raised |-> parse_data_raises(parse_data_filename[1]),
                     returned |-> None])
    /\ pc' = "parsed"
    /\ UNCHANGED << read_call,
                    backend, mntbench_all_zip, layout_dimensions, database,
                    form_data, prepared_data, table, file_paths, error,
                    generators, parse_data_filename >>

Next ==
    \/ InitDatabase
    \/ InitDatabaseFails
    \/ PrepareFormInput
    \/ GetUpdatedTable
    \/ GetSelectedFilePaths
    \/ SelectFilePaths
    \/ PrettifyTable
    \/ Download
    \/ EndRequest

Spec == Init /\ [][Next]_vars

\* prepare_form_input on its own
FormNext == DecodeForm

FormSpec == FormInit /\ [][FormNext]_vars

\* the restreaming on its own
ZipNext ==
    \E g \in DOMAIN generators :
        \/ Pull(g)
        \/ Abandon(g)

ZipSpec == ZipInit /\ [][ZipNext]_vars

\* a new Backend and a call of read_mntbench_all_zip on it
ReadInit ==
    /\ backend \in {"bench", "benchviewer"}
    /\ mntbench_all_zip = None
    /\ layout_dimensions = None
    /\ database = None
    /\ form_data = None
    /\ prepared_data = None
    /\ table = None
    /\ file_paths = None
    /\ error = None
    /\ generators = << >>
    /\ parse_data_filename = None
    /\ parse_data_result = None
    /\ read_call \in { Some(call) : call \in ReadCalls(backend) }
    /\ pc = "called"

\* the version of the installed module is asked for, then the local file is
\* looked for
SearchLocal ==
    /\ pc = "called"
    /\ LET call == read_call[1]
       IN  IF call.module_version = None
           THEN /\ read_call' = Some([call EXCEPT !.returned = Some(FALSE)])
                /\ pc' = "returned"
           ELSE IF search_raises(backend, call) # None
           THEN /\ read_call' =
                      Some([call EXCEPT
                               !.raised = search_raises(backend, call)])
                /\ pc' = "raised"
           ELSE /\ read_call' = read_call
                /\ pc' = IF found_locally(backend, call) THEN "found"
                         ELSE "querying"
    /\ UNCHANGED << backend, mntbench_all_zip, layout_dimensions, database,
                    form_data, prepared_data, table, file_paths, error,
                    generators, parse_data_filename, parse_data_result >>

\* "No benchmarks found. Querying GitHub...": the tags are requested, then
\* the releases; handle_github_api_request raises RuntimeError when GitHub
\* does not answer with 200
QueryGitHub ==
    /\ pc = "querying"
    /\ LET call == [read_call[1] EXCEPT !.requests = @ + 1]
           queried == try_versions(call, 1)
       IN  IF ~call.github_answers
           THEN /\ read_call' =
                      Some([call EXCEPT !.raised = Some("RuntimeError")])
                /\ pc' = "raised"
           ELSE IF ~queried.version_found
           THEN /\ read_call' =
                      Some([queried EXCEPT !.returned = Some(FALSE)])
                /\ pc' = "returned"
           ELSE /\ read_call' = Some(queried)
                /\ pc' = "queried"
    /\ UNCHANGED << backend, mntbench_all_zip, layout_dimensions, database,
                    form_data, prepared_data, table, file_paths, error,
                    generators, parse_data_filename, parse_data_result >>

\* "with huge_zip_path.open('rb') as zf": the file is read and becomes
\* Backend.mntbench_all_zip
OpenArchive ==
    /\ pc \in {"found", "queried"}
    /\ LET call == read_call[1]
       IN  IF open_raises(call) # None
           THEN /\ read_call' =
                      Some([call EXCEPT !.raised = open_raises(call)])
                /\ mntbench_all_zip' = mntbench_all_zip
                /\ pc' = "raised"
           ELSE /\ read_call' = Some([call EXCEPT !.returned = Some(TRUE)])
                /\ mntbench_all_zip' = Some(call.file[1].namelist)
                /\ pc' = "returned"
    /\ UNCHANGED << backend, layout_dimensions, database, form_data,
                    prepared_data, table, file_paths, error, generators,
                    parse_data_filename, parse_data_result >>

\* read_mntbench_all_zip on its own
ReadNext ==
    \/ SearchLocal
    \/ QueryGitHub
    \/ OpenArchive

ReadSpec == ReadInit /\ [][ReadNext]_vars

\* the restreaming of two requests at once
ConcurrentNext ==
    \E g \in DOMAIN generators :
        \/ Pull(g)
        \/ Abandon(g)

ConcurrentSpec == ConcurrentInit /\ [][ConcurrentNext]_vars

\* parse_data on its own
ParseNext == ParseData

ParseSpec == ParseInit /\ [][ParseNext]_vars

(***************************************************************************)
(* What the properties speak of.                                            *)
(***************************************************************************)
\* a request has been filtered
Filtered == pc = "filtered"

\* the concatenation trindade ++ fontes ++ iscas ++ epfl of the backend
AllBenchmarks ==
    IF backend = "bench" THEN trindade \o fontes \o iscas \o epfl
    ELSE bv_trindade \o bv_fontes \o bv_iscas \o bv_epfl

\* the benchmark names the identifiers stand for
RequestedNames(ids) ==
    { AllBenchmarks[ids[i]] :
        i \in { j \in DOMAIN ids : ids[j] \in DOMAIN AllBenchmarks } }

\* the catalog entries of the requested benchmarks
RequestedEntries ==
    { r \in Range(database[1]) :
        r.benchmark \in RequestedNames(prepared_data[1].indices_benchmarks) }

\* the file names filter_database returned, in order
ReturnedNames ==
    IF backend = "bench"
    THEN [i \in DOMAIN table[1].rows |-> table[1].rows[i].filename]
    ELSE table[1]

\* the catalog entries filter_database returned
ReturnedEntries ==
    IF backend = "bench" THEN Range(table[1].rows)
    ELSE { r \in Range(database[1]) : r.filename \in Range(table[1]) }

\* the catalog has one entry per file name
UniqueFilenames ==
    \A i, j \in DOMAIN database[1] :
        database[1][i].filename = database[1][j].filename => i = j

(***************************************************************************)
(* C1: the entries filter_database returns (either backend) are catalog     *)
(* entries of the requested benchmarks: every returned file name is the     *)
(* name of an entry of the catalog whose benchmark is one of the names the  *)
(* identifiers of the request stand for.                                    *)
(***************************************************************************)
C1_OnlyRequestedBenchmarks ==
    Filtered =>
        /\ \A n \in Range(ReturnedNames) :
              \E r \in RequestedEntries : r.filename = n
        /\ ReturnedEntries \subseteq RequestedEntries

\* a request that returns entries while the catalog holds entries of a
\* benchmark that was not requested
C1_Witness ==
    /\ Filtered
    /\ ReturnedEntries # {}
    /\ \E r \in Range(database[1]) : r \notin RequestedEntries
    /\ prepared_data[1].gate /\ prepared_data[1].network

(***************************************************************************)
(* C2: filter_database (either backend) returns nothing when the            *)
(* identifiers stand for no benchmark, and nothing when neither gate nor    *)
(* network is set, whatever the other toggles are.                          *)
(***************************************************************************)
C2_EmptySelection ==
    Filtered =>
        LET c == prepared_data[1]
        IN  (RequestedNames(c.indices_benchmarks) = {} \/ (~c.gate /\ ~c.network))
                => ReturnedNames = << >>

\* a loaded catalog, a benchmark of it requested with a library and a
\* clocking scheme, but no abstraction level
C2_Witness ==
    /\ Filtered
    /\ RequestedEntries # {}
    /\ ~prepared_data[1].gate /\ ~prepared_data[1].network
    /\ prepared_data[1].one /\ prepared_data[1].use
    /\ ReturnedNames = << >>

(***************************************************************************)
(* C3: with one catalog entry per file name, no file name occurs twice in   *)
(* what filter_database returns (either backend).                           *)
(***************************************************************************)
C3_NoDuplicates ==
    (Filtered /\ UniqueFilenames) =>
        \A i, j \in DOMAIN ReturnedNames :
            ReturnedNames[i] = ReturnedNames[j] => i = j

\* mnt.benchviewer collected a row more than once before drop_duplicates
C3_Witness ==
    /\ Filtered
    /\ UniqueFilenames
    /\ backend = "benchviewer"
    /\ ReturnedNames # << >>
    /\ Len(bv_collected(database[1], prepared_data[1])) > Len(ReturnedNames)

(***************************************************************************)
(* C4: mnt.bench: the network-level entries filter_database returns are all *)
(* network-level entries of the requested benchmarks when network is set,   *)
(* and none when it is not, whatever the other toggles are.                 *)
(***************************************************************************)
C4_NetworkPart ==
    (Filtered /\ backend = "bench") =>
        { r \in ReturnedEntries : r.level = "network" }
            = IF prepared_data[1].network
              THEN { r \in RequestedEntries : r.level = "network" }
              ELSE {}

\* network is set together with gate, a library, a scheme and an algorithm,
\* and network-level entries are returned
C4_Witness ==
    /\ Filtered
    /\ backend = "bench"
    /\ LET c == prepared_data[1]
       IN  c.network /\ c.gate /\ c.bestagon /\ c.use /\ c.ortho
    /\ \E r \in ReturnedEntries : r.level = "network"

(***************************************************************************)
(* C5: mnt.benchviewer: when network is set, every network-level entry of   *)
(* the requested benchmarks is returned, whatever gate, one, bestagon and   *)
(* the clocking-scheme toggles are.  The code returns nothing for network   *)
(* without gate and with a library toggle.                                  *)
(***************************************************************************)
C5_NetworkAlwaysReturned ==
    (Filtered /\ backend = "benchviewer" /\ prepared_data[1].network) =>
        \A r \in RequestedEntries :
            r.level = "network" => r.filename \in Range(ReturnedNames)

(***************************************************************************)
(* C6: mnt.bench: with gate set, best not set and a clocking-scheme toggle  *)
(* set, every gate-level entry returned has one of the requested clocking   *)
(* schemes (so none is returned when no candidate has one).  The code       *)
(* keeps all library-filtered candidates when none has a requested scheme.  *)
(***************************************************************************)
RequestedSchemes(c) ==
    { sch \in {"2ddwave", "use", "res", "esr", "row"} :
        \/ sch = "2ddwave" /\ c.twoddwave
        \/ sch = "use" /\ c.use
        \/ sch = "res" /\ c.res
        \/ sch = "esr" /\ c.esr
        \/ sch = "row" /\ c.row }

C6_OnlyRequestedSchemes ==
    LET c == prepared_data[1]
    IN  (Filtered /\ backend = "bench" /\ c.gate /\ ~c.best /\ any_scheme(c)) =>
            \A r \in ReturnedEntries :
                r.level = "gate" => r.clocking_scheme \in RequestedSchemes(c)

(***************************************************************************)
(* C7: gate set, network not set, one or bestagon set, and no clocking      *)
(* scheme, best or algorithm toggle set: filter_database (either backend)   *)
(* returns exactly the gate-level entries of the requested benchmarks whose *)
(* library is a requested one.                                              *)
(***************************************************************************)
RequestedLibraries(c) ==
    { lib \in {"one", "bestagon"} :
        (lib = "one" /\ c.one) \/ (lib = "bestagon" /\ c.bestagon) }

LibraryOnlyRequest ==
    LET c == prepared_data[1]
    IN  /\ c.gate /\ ~c.network
        /\ c.one \/ c.bestagon
        /\ ~any_scheme(c)
        /\ backend = "bench" => ~(c.best \/ c.exact \/ c.ortho \/ c.nanoplacer)

C7_LibraryOnly ==
    (Filtered /\ LibraryOnlyRequest) =>
        ReturnedEntries =
            { r \in RequestedEntries :
                /\ r.level = "gate"
                /\ r.library \in RequestedLibraries(prepared_data[1]) }

\* one library alone is requested, the requested benchmarks have gate-level
\* entries of the other library too, and entries are returned
C7_Witness ==
    /\ Filtered
    /\ LibraryOnlyRequest
    /\ ~prepared_data[1].one
    /\ ReturnedEntries # {}
    /\ \E r \in RequestedEntries : r.library = "one"
    /\ \E r \in RequestedEntries : r.level = "network"

(***************************************************************************)
(* C8: mnt.bench: with gate and best set, the gate-level entries returned   *)
(* are exactly the gate-level entries of the requested benchmarks that pass *)
(* the library mask and have clocking_scheme "best"; the other clocking-    *)
(* scheme toggles add nothing.                                              *)
(***************************************************************************)
PassesLibraryMask(r, c) ==
    /\ (c.one /\ ~c.bestagon) => r.library = "one"
    /\ (~c.one /\ c.bestagon) => r.library = "bestagon"

C8_BestOverrides ==
    LET c == prepared_data[1]
    IN  (Filtered /\ backend = "bench" /\ c.gate /\ c.best) =>
            { r \in ReturnedEntries : r.level = "gate" } =
                { r \in RequestedEntries :
                    /\ r.level = "gate"
                    /\ PassesLibraryMask(r, c)
                    /\ r.clocking_scheme = "best" }

\* best is set together with another scheme whose entries are in the
\* catalog, and a best layout is returned
C8_Witness ==
    /\ Filtered
    /\ backend = "bench"
    /\ LET c == prepared_data[1] IN c.gate /\ c.best /\ c.use /\ c.one
    /\ \E r \in RequestedEntries : r.clocking_scheme = "use"
    /\ \E r \in ReturnedEntries : r.clocking_scheme = "best"

(***************************************************************************)
(* C9: filter_database (either backend) resolves the identifier i, for      *)
(* 1 <= i <= the number of benchmarks, to element i of trindade ++ fontes   *)
(* ++ iscas ++ epfl; any other identifier resolves to nothing, raises       *)
(* nothing, and adding it to the request does not change the result.        *)
(***************************************************************************)
\* identifiers outside [1, number of benchmarks]
OutOfRange == {-2, -1, 0, Len(AllBenchmarks) + 1, Len(AllBenchmarks) + 2}

\* the names of the identifiers in range, in order
ResolvedInOrder(ids) ==
    LET in_range == SelectSeq(ids, LAMBDA i : i \in DOMAIN AllBenchmarks)
    IN  [j \in DOMAIN in_range |-> AllBenchmarks[in_range[j]]]

\* selected_benchmarks as the backend's loop computes it
SelectedBenchmarks(ids) ==
    IF backend = "bench" THEN resolve_identifiers(ids)
    ELSE bv_resolve_identifiers(ids)

\* filter_database of the backend on the configuration c
FilterResult(c) ==
    IF backend = "bench" THEN filter_database(database, c)
    ELSE bv_filter_database(database, c)

C9_IdentifierResolution ==
    pc \in {"prepared", "filtered"} =>
        LET c == prepared_data[1]
        IN  /\ \A i \in DOMAIN AllBenchmarks :
                  SelectedBenchmarks(<<i>>) = << AllBenchmarks[i] >>
            /\ \A i \in OutOfRange : SelectedBenchmarks(<<i>>) = << >>
            /\ SelectedBenchmarks(c.indices_benchmarks)
                  = ResolvedInOrder(c.indices_benchmarks)
            /\ Filtered =>
                  \A i \in OutOfRange :
                      FilterResult([c EXCEPT !.indices_benchmarks = Append(@, i)])
                          = table[1]

\* a request with an identifier in range and one past the last benchmark
\* that returns entries
C9_Witness ==
    /\ Filtered
    /\ \E i \in DOMAIN prepared_data[1].indices_benchmarks :
          prepared_data[1].indices_benchmarks[i] > Len(AllBenchmarks)
    /\ \E i \in DOMAIN prepared_data[1].indices_benchmarks :
          prepared_data[1].indices_benchmarks[i] \in DOMAIN AllBenchmarks
    /\ ReturnedNames # << >>

(***************************************************************************)
(* C10: prepare_form_input (both backends): indices_benchmarks is, in key   *)
(* order, the integer N of every key that contains "select" and a           *)
(* "_<digits>" group; a toggle is true iff some key contains its token; the *)
(* form of the test gives [1, 2, 3, 4] with only gate and one true.         *)
(* prepare_form_input tests the parsed id by its truth value, so a key      *)
(* whose N is 0 is left out as if it had no group.                          *)
(***************************************************************************)
\* tok occurs in k, character by character
OccursIn(tok, k) ==
    \E off \in 0..(Len(k) - Len(tok)) :
        \A j \in 1..Len(tok) : k[off + j] = tok[j]

Digits == <<"0", "1", "2", "3", "4", "5", "6", "7", "8", "9">>

IsDigitAt(k, i) == i \in DOMAIN k /\ \E d \in DOMAIN Digits : Digits[d] = k[i]

\* the positions of the "_" of a "_<digits>" group
GroupStarts(k) == { i \in DOMAIN k : k[i] = "_" /\ IsDigitAt(k, i + 1) }

HasGroup(k) == GroupStarts(k) # {}

Power10(n) == IF n = 0 THEN 1 ELSE IF n = 1 THEN 10 ELSE IF n = 2 THEN 100
              ELSE 1000

\* the integer of the leftmost "_<digits>" group of k
GroupNumber(k) ==
    LET first == CHOOSE i \in GroupStarts(k) : \A j \in GroupStarts(k) : i <= j
        last == CHOOSE e \in DOMAIN k :
                    /\ e > first
                    /\ \A j \in (first + 1)..e : IsDigitAt(k, j)
                    /\ ~IsDigitAt(k, e + 1)
        digit(j) == (CHOOSE d \in DOMAIN Digits : Digits[d] = k[j]) - 1
        Sum[j \in first..last] ==
            IF j = first THEN 0 ELSE Sum[j - 1] + digit(j) * Power10(last - j)
    IN  Sum[last]

\* the numbers of the keys that satisfy Chosen, in key order
NumbersOf(form, Chosen(_)) ==
    LET ks == SelectSeq(form, Chosen)
    IN  [i \in DOMAIN ks |-> GroupNumber(ks[i])]

\* every toggle is true iff some key contains its token
TogglesBySubstring(form, c) ==
    LET some(tok) == \E i \in DOMAIN form : OccursIn(tok, form[i])
    IN  /\ c.network <=> some(T_network)
        /\ c.gate <=> some(T_gate)
        /\ c.one <=> some(T_one)
        /\ c.bestagon <=> some(T_bestagon)
        /\ c.twoddwave <=> some(T_twoddwave)
        /\ c.use <=> some(T_use)
        /\ c.res <=> some(T_res)
        /\ c.esr <=> some(T_esr)
        /\ c.row <=> some(T_row)
        /\ backend = "bench" =>
              /\ c.best <=> some(T_best_layout)
              /\ c.exact <=> some(T_exact)
              /\ c.ortho <=> some(T_ortho)
              /\ c.nanoplacer <=> some(T_nanoplacer)
              /\ c.optimized <=> some(T_post_layout)
              /\ c.ordered <=> some(T_input_ordering)

\* the BenchmarkConfiguration test_prepare_form_input expects of
\* mnt.benchviewer
bv_TestFormExpected ==
    [ indices_benchmarks |-> <<1, 2, 3, 4>>, network |-> FALSE, gate |-> TRUE,
      one |-> TRUE, bestagon |-> FALSE, twoddwave |-> FALSE, use |-> FALSE,
      res |-> FALSE, esr |-> FALSE, row |-> FALSE ]

\* the same with the toggles of mnt.bench
TestFormExpected ==
    [ indices_benchmarks |-> <<1, 2, 3, 4>>, network |-> FALSE, gate |-> TRUE,
      one |-> TRUE, bestagon |-> FALSE, twoddwave |-> FALSE, use |-> FALSE,
      res |-> FALSE, esr |-> FALSE, row |-> FALSE, best |-> FALSE,
      exact |-> FALSE, ortho |-> FALSE, nanoplacer |-> FALSE,
      optimized |-> FALSE, ordered |-> FALSE ]

\* C10: indices_benchmarks holds, in key order, the number of every key with
\* "select" and a "_<digits>" group; every toggle is true iff some key
\* contains its token; the test's form gives [1, 2, 3, 4], gate and one
C10_FormDecoding ==
    pc = "decoded" =>
        LET form == form_data[1]
            c == prepared_data[1]
        IN  /\ c.indices_benchmarks =
                  NumbersOf(form, LAMBDA k : OccursIn(T_select, k) /\ HasGroup(k))
            /\ TogglesBySubstring(form, c)
            /\ form = TestForm =>
                  c = IF backend = "bench" THEN TestFormExpected
                      ELSE bv_TestFormExpected

\* what prepare_form_input does keep: the number of every key with "select"
\* and a group whose number is not 0
FormDecodingOfNonzeroIds ==
    pc = "decoded" =>
        LET form == form_data[1]
            c == prepared_data[1]
        IN  /\ c.indices_benchmarks =
                  NumbersOf(form, LAMBDA k : /\ OccursIn(T_select, k)
                                             /\ HasGroup(k)
                                             /\ GroupNumber(k) # 0)
            /\ TogglesBySubstring(form, c)
            /\ form = TestForm =>
                  c = IF backend = "bench" THEN TestFormExpected
                      ELSE bv_TestFormExpected

\* the form of the test has been decoded
TestFormDecoded ==
    /\ pc = "decoded"
    /\ form_data[1] = TestForm
    /\ prepared_data[1].indices_benchmarks = <<1, 2, 3, 4>>

(***************************************************************************)
(* What the properties of the restreaming speak of: the bytes a consumer    *)
(* has received, read back as an archive.                                   *)
(***************************************************************************)
\* the generator of the call
Generator == generators[1]

\* every requested name is a member of the source archive
AllPresent ==
    \A i \in DOMAIN Generator.filenames :
        \E j \in DOMAIN mntbench_all_zip[1] :
            mntbench_all_zip[1][j] = Generator.filenames[i]

\* the consumer has received the last chunk
Exhausted == Generator.pc \in {"at_final_yield", "finished"}

\* the chunks one after the other
Concatenation(chunks) ==
    LET F[i \in 0..Len(chunks)] ==
            IF i = 0 THEN << >> ELSE F[i - 1] \o chunks[i]
    IN  F[Len(chunks)]

Received == Concatenation(Generator.sent)

\* the stream ends in an end record
HasEndRecord(stream) == Len(stream) > 0 /\ stream[Len(stream)].kind = "end"

\* the entries of the central directory the end record points to
CentralDirectory(stream) ==
    LET end_record == stream[Len(stream)]
    IN  [k \in 1..end_record.entries |-> stream[end_record.offset + k]]

\* the bytes of the member whose local header stands at the offset: the
\* data between the header and the data descriptor
BytesAt(stream, offset) ==
    LET after == { j \in (offset + 2)..Len(stream) :
                     stream[j].kind = "descriptor" }
        stop == CHOOSE j \in after : \A x \in after : j <= x
    IN  [j \in 1..(stop - offset - 2) |-> stream[offset + 1 + j].byte]

\* the stream is an archive: the end record is its last unit, the central
\* directory stands right before it, and every entry points to the local
\* header of its member, which a data descriptor closes
IsArchive(stream) ==
    /\ HasEndRecord(stream)
    /\ LET end_record == stream[Len(stream)]
       IN  /\ end_record.offset + end_record.entries + 1 = Len(stream)
           /\ \A k \in 1..end_record.entries :
                LET entry == stream[end_record.offset + k]
                IN  /\ entry.kind = "central"
                    /\ entry.header_offset + 1 \in DOMAIN stream
                    /\ stream[entry.header_offset + 1].kind = "local"
                    /\ stream[entry.header_offset + 1].filename
                           = entry.filename
                    /\ \E j \in (entry.header_offset + 2)..Len(stream) :
                           /\ stream[j].kind = "descriptor"
                           /\ \A x \in (entry.header_offset + 2)..(j - 1) :
                                  stream[x].kind = "deflated"

\* the names of the members of the archive
MemberNames(stream) ==
    { CentralDirectory(stream)[k].filename :
        k \in DOMAIN CentralDirectory(stream) }

\* the final component of a member's path
FinalComponent(name) == [stem |-> name.stem, ext |-> name.ext]

C12_AbsentNameRaises ==
    ~AllPresent =>
        /\ ~Exhausted
        /\ \A j \in DOMAIN Received : Received[j].kind \notin {"central", "end"}
        /\ ~IsArchive(Received)
        /\ Generator.pc \notin {"created", "at_member_yield", "closed"} =>
              /\ Generator.pc = "raised"
              /\ Generator.raised = Some("KeyError")

\* the absent name stood behind a present one: a chunk was received, then
\* KeyError
C12_Witness ==
    /\ ~AllPresent
    /\ Generator.pc = "raised"
    /\ Generator.raised = Some("KeyError")
    /\ Len(Generator.sent) >= 1

(***************************************************************************)
(* C13: when a requested name is absent from the source archive the         *)
(* restreaming delivers no archive bytes: no chunk is yielded before the    *)
(* failure, wherever the absent name stands in the list.                    *)
(***************************************************************************)
\* C13: with an absent name in the list no chunk is ever yielded
C13_NoBytesBeforeFailure == ~AllPresent => Generator.sent = << >>

(***************************************************************************)
(* C18: the buffer of generate_zip_ephemeral_chunks is closed on every way  *)
(* the generator can end: after the final chunk, when a member is not       *)
(* found, and when the consumer abandons the generator.                     *)
(***************************************************************************)
\* C18: a generator that has ended, and had created its buffer, has closed it
C18_BufferClosed ==
    (Generator.pc \in {"finished", "raised", "closed"}
     /\ Generator.fileobj # None)
        => Generator.fileobj[1].closed

(***************************************************************************)
(* C14: for every constructed catalog name, <benchmark>_<LIB>_<SCHEME>_     *)
(* <ALG>_<OPT>_<ORD>.fgl, <benchmark>_<LIB>_BEST.fgl or <benchmark>.v,      *)
(* parse_data of mnt.bench returns a record whose filename is the name,     *)
(* whose benchmark is the lower-cased tokens left of the suffix, and whose  *)
(* library, clocking_scheme, physical_design_algorithm, optimized and       *)
(* ordered are the lower-cased suffix tokens in that order, empty where the *)
(* name has none.                                                           *)
(***************************************************************************)
\* the k-th lower-cased token of the suffix, "" when it has fewer
LoweredOrEmpty(suffix, k) == IF k <= Len(suffix) THEN suffix[k].lowered ELSE ""

\* the record is the one the tokens the name was built from call for
ParsedAs(record, name, benchmark, suffix) ==
    /\ record.filename = name
    /\ record.benchmark = lowered_of(benchmark)
    /\ record.library = LoweredOrEmpty(suffix, 1)
    /\ record.clocking_scheme = LoweredOrEmpty(suffix, 2)
    /\ record.physical_design_algorithm = LoweredOrEmpty(suffix, 3)
    /\ record.optimized = LoweredOrEmpty(suffix, 4)
    /\ record.ordered = LoweredOrEmpty(suffix, 5)

\* the call of parse_data has returned
Parsed == pc = "parsed"

\* C14: whatever catalog name was built from a benchmark and a suffix (none
\* for a network), parse_data returns the lower-cased tokens it was built
\* from
C14_ParseRecoversTokens ==
    Parsed =>
        /\ \A b \in NameBenchmarks :
             \A x \in NameSuffixes :
                parse_data_filename[1] = gate_name(b, x) =>
                    /\ parse_data_result[1].raised = None
                    /\ ParsedAs(parse_data_result[1].returned[1],
                                gate_name(b, x), b, x)
                    /\ parse_data_result[1].returned[1].level = "gate"
        /\ \A b \in NameBenchmarks :
             parse_data_filename[1] = network_name(b) =>
                 /\ parse_data_result[1].raised = None
                 /\ ParsedAs(parse_data_result[1].returned[1],
                             network_name(b), b, << >>)
                 /\ parse_data_result[1].returned[1].level = "network"

\* the shorthand par_gen_Bestagon_BEST.fgl has been parsed
C14_Witness ==
    /\ Parsed
    /\ parse_data_filename[1] = fgl(<<"par", "gen", "Bestagon", "BEST">>)
    /\ parse_data_result[1].returned[1].benchmark = <<"par", "gen">>
    /\ parse_data_result[1].returned[1].clocking_scheme = "best"
    /\ parse_data_result[1].returned[1].physical_design_algorithm = ""

(***************************************************************************)
(* C15: parse_data on a gate-level name with a six-token suffix,            *)
(* <benchmark>_<LIB>_<SCHEME>_<ALG>_<OPT>_<ORD>_<COST>.fgl, returns         *)
(* benchmark, library, clocking_scheme, physical_design_algorithm,          *)
(* optimized and ordered as the lower-cased tokens of those places.         *)
(***************************************************************************)
\* C15: a name that ends in a cost is parsed as its first five suffix
\* tokens call for
C15_ParseNameWithCost ==
    Parsed =>
        \A b \in NameBenchmarks :
           \A x \in NameSuffixesWithCost :
              parse_data_filename[1] = gate_name(b, x) =>
                  /\ parse_data_result[1].raised = None
                  /\ ParsedAs(parse_data_result[1].returned[1],
                              gate_name(b, x), b, x)

(***************************************************************************)
(* C16: loading the catalog from an archive that holds a member whose       *)
(* extension is neither .fgl nor .v aborts with an error; such a member is  *)
(* never skipped while the rest of the catalog is loaded.                   *)
(***************************************************************************)
\* the archive holds a member that is neither a layout nor a network
HasUnknownMember ==
    \E i \in DOMAIN mntbench_all_zip[1] :
        mntbench_all_zip[1][i].ext \notin {"fgl", "v"}

\* C16: a server whose archive holds such a member does not load a catalog
C16_UnknownExtensionAborts ==
    (pc # "constructed" /\ HasUnknownMember) =>
        (pc = "failed" /\ database = None)


(***************************************************************************)
(* The request handlers of mnt.bench on a server without benchmarks.        *)
(***************************************************************************)
\* the catalog is None or has no rows
NoCatalog == database = None \/ empty(database[1])

\* C17: when the catalog is None or empty, the filter followed by
\* get_selected_file_paths, as the counting and the download handlers call
\* them, ends with the empty selection and raises nothing.
C17_EmptyCatalogSelectsNothing ==
    (backend = "bench" /\ NoCatalog /\ pc \in {"selected", "raised"})
        => (pc = "selected" /\ file_paths = Some(<< >>) /\ error = None)

LibraryAndSchemeRequest ==
    LET c == prepared_data[1]
    IN  /\ backend = "benchviewer"
        /\ c.gate /\ ~c.network
        /\ c.one \/ c.bestagon
        /\ any_scheme(c)

\* C20: mnt.benchviewer: with gate set, network not set, a library and a
\* clocking scheme requested, filter_database returns exactly the entries of
\* the requested benchmarks that are of library "one" with a requested
\* clocking scheme (one requested) or of library "bestagon" with clocking
\* scheme "row" (bestagon requested), whichever libraries and schemes the
\* request names.
C20_LibraryAndScheme ==
    (Filtered /\ LibraryAndSchemeRequest) =>
        LET c == prepared_data[1]
        IN  ReturnedEntries =
                { r \in RequestedEntries :
                    \/ /\ c.one
                       /\ r.library = "one"
                       /\ r.clocking_scheme \in RequestedSchemes(c)
                    \/ /\ c.bestagon
                       /\ r.library = "bestagon"
                       /\ r.clocking_scheme = "row" }

(***************************************************************************)
(* mnt.bench: the physical design algorithms and their flags.               *)
(***************************************************************************)
\* the physical design algorithms whose toggles the request sets
RequestedAlgorithms(c) ==
    { alg \in {"exact", "ortho", "nanoplacer"} :
        \/ alg = "exact" /\ c.exact
        \/ alg = "ortho" /\ c.ortho
        \/ alg = "nanoplacer" /\ c.nanoplacer }

\* the gate-level entries filter_database returned
ReturnedGateEntries == { r \in ReturnedEntries : r.level = "gate" }

\* mnt.bench, gate set and best not set
GateWithoutBest ==
    /\ backend = "bench"
    /\ prepared_data[1].gate
    /\ ~prepared_data[1].best

\* C21: mnt.bench: with gate set, best not set and exactly one of exact,
\* ortho and nanoplacer set, every gate-level entry returned has that
\* physical design algorithm, whatever the library and clocking-scheme
\* toggles are.
C21_OneAlgorithm ==
    (/\ Filtered
     /\ GateWithoutBest
     /\ Cardinality(RequestedAlgorithms(prepared_data[1])) = 1)
        => \A r \in ReturnedGateEntries :
              r.physical_design_algorithm
                  \in RequestedAlgorithms(prepared_data[1])

\* one algorithm is requested together with a clocking scheme, gate-level
\* entries are returned, and the requested benchmarks have gate-level
\* entries of that scheme made by another algorithm
C21_Witness ==
    /\ Filtered
    /\ GateWithoutBest
    /\ Cardinality(RequestedAlgorithms(prepared_data[1])) = 1
    /\ any_scheme(prepared_data[1])
    /\ ReturnedGateEntries # {}
    /\ \E r \in RequestedEntries :
          /\ r.level = "gate"
          /\ r.clocking_scheme \in RequestedSchemes(prepared_data[1])
          /\ r.physical_design_algorithm
                 \notin RequestedAlgorithms(prepared_data[1]) \cup {""}

\* C22: mnt.bench: with gate set, best not set and ortho or nanoplacer
\* chosen, optimized set means every gate-level entry returned has
\* optimized "opt", and ordered set means every gate-level entry returned
\* has ordered "ord", for ortho and for nanoplacer alike.
C22_FlagsNarrow ==
    (/\ Filtered
     /\ GateWithoutBest
     /\ prepared_data[1].ortho \/ prepared_data[1].nanoplacer)
        => /\ prepared_data[1].optimized
                => \A r \in ReturnedGateEntries : r.optimized = "opt"
           /\ prepared_data[1].ordered
                => \A r \in ReturnedGateEntries : r.ordered = "ord"

\* C28: mnt.bench: the algorithm toggles are successive filters: with gate
\* set, best not set and two or more of exact, nanoplacer and ortho set, no
\* gate-level entry is returned.
C28_AlgorithmsAreSuccessive ==
    (/\ Filtered
     /\ GateWithoutBest
     /\ Cardinality(RequestedAlgorithms(prepared_data[1])) >= 2)
        => ReturnedGateEntries = {}

\* two algorithms are requested and the requested benchmarks have a
\* gate-level entry of each of them
C28_Witness ==
    /\ Filtered
    /\ GateWithoutBest
    /\ Cardinality(RequestedAlgorithms(prepared_data[1])) >= 2
    /\ \A alg \in RequestedAlgorithms(prepared_data[1]) :
          \E r \in RequestedEntries :
             r.level = "gate" /\ r.physical_design_algorithm = alg

(***************************************************************************)
(* mnt.bench: the records parse_data makes of networks.                     *)
(***************************************************************************)
\* C25: every record parse_data returns for a .v name has the gate-specific
\* fields empty: library, clocking_scheme, physical_design_algorithm,
\* optimized and ordered, and also x, y and area, whatever the side-table of
\* dimensions holds for the name.
C25_NetworkFieldsEmpty ==
    (/\ pc = "parsed"
     /\ parse_data_filename[1].ext = "v"
     /\ parse_data_result[1].raised = None)
        => LET r == parse_data_result[1].returned[1]
           IN  /\ r.level = "network"
               /\ r.library = ""
               /\ r.clocking_scheme = ""
               /\ r.physical_design_algorithm = ""
               /\ r.optimized = ""
               /\ r.ordered = ""
               /\ r.x = << >>
               /\ r.y = << >>
               /\ r.area = << >>

(***************************************************************************)
(* The protocol of generate_zip_ephemeral_chunks: write one member, drain   *)
(* the buffer, reset it.                                                    *)
(***************************************************************************)
\* the units of the first k members of the list, as the zip writer writes
\* them
UnitsOfMembers(filenames, k) ==
    Concatenation([j \in 1..k |->
                      member_units(path_name(filenames[j]),
                                   member_bytes(filenames[j]))])

\* everything the zip writer of the generator has written so far: the
\* members, and the central directory once the writer is closed
Written(G) ==
    IF G.zf = None THEN << >>
    ELSE UnitsOfMembers(G.filenames, Len(G.zf[1].filelist))
         \o (IF G.zf[1].closed THEN end_record_units(G.zf[1], G.fileobj[1])
             ELSE << >>)

\* the number of members that have data in the buffer
MembersIn(fp) == Cardinality({ j \in DOMAIN fp : fp[j].kind = "local" })

IsPrefix(a, b) == Len(a) <= Len(b) /\ a = SubSeq(b, 1, Len(a))

ConsumedAlone(G) ==
    exhaust(generate_zip_ephemeral_chunks(G.filenames), mntbench_all_zip)

\* C24: for a list of n names that are all in the source archive the
\* generator ends after exactly n + 1 chunks: the k-th chunk is the k-th
\* member of the list, the last chunk holds the central directory and is
\* yielded when the zip writer is closed, consuming the generator reaches
\* its end without an exception, and a finished generator yields nothing
\* more when it is consumed again.
C24_OneChunkPerMemberAndTrailer ==
    AllPresent =>
        LET n == Len(Generator.filenames)
        IN  /\ Len(Generator.sent) <= n + 1
            /\ Generator.pc # "raised"
            /\ \A k \in DOMAIN Generator.sent :
                  k <= n =>
                     Generator.sent[k] =
                         member_units(path_name(Generator.filenames[k]),
                                      member_bytes(Generator.filenames[k]))
            /\ Generator.pc = "at_member_yield" =>
                  Len(Generator.sent) = Generator.i
            /\ Exhausted =>
                  /\ Len(Generator.sent) = n + 1
                  /\ Generator.zf[1].closed
                  /\ Generator.sent[n + 1] =
                         end_record_units(Generator.zf[1],
                                          Generator.fileobj[1])
                  /\ HasEndRecord(Generator.sent[n + 1])
            /\ ConsumedAlone(Generator).pc = "finished"
            /\ Len(ConsumedAlone(Generator).sent) = n + 1
            /\ Generator.pc = "finished" =>
                  resume(Generator, mntbench_all_zip) = Generator

\* the last chunk of a list of two present names has been yielded
C24_Witness ==
    /\ AllPresent
    /\ Generator.pc = "at_final_yield"
    /\ Len(Generator.filenames) = 2
    /\ Len(Generator.sent) = 3

(***************************************************************************)
(* NoSeekBytesIO.tell during the restreaming.                               *)
(***************************************************************************)
\* tell() is the number of bytes written since the buffer was made, draining
\* does not change it, and the offsets the zip writer took from it are
\* positions in the stream of everything written
TellCountsAllBytes ==
    Generator.fileobj # None =>
        LET fileobj == Generator.fileobj[1]
            zf == Generator.zf[1]
            drained == truncate_and_remember_offset(fileobj, 0)
        IN  /\ tell(fileobj) = Len(Written(Generator))
            /\ tell(fileobj) = fileobj.deleted_offset + fileobj.pos
            /\ tell(drained) = tell(fileobj)
            /\ drained.deleted_offset = fileobj.deleted_offset + fileobj.pos
            /\ Generator.pc = "at_member_yield" =>
                  drained.deleted_offset
                      = fileobj.deleted_offset + Len(fileobj.fp)
            /\ \A k \in DOMAIN zf.filelist :
                  /\ zf.filelist[k].header_offset
                         = Len(UnitsOfMembers(Generator.filenames, k - 1))
                  /\ Written(Generator)[zf.filelist[k].header_offset + 1]
                         = [kind |-> "local",
                            filename |-> zf.filelist[k].filename]
            /\ zf.start_dir
                   = Len(UnitsOfMembers(Generator.filenames,
                                        Len(zf.filelist)))
            /\ Exhausted =>
                  /\ IsArchive(Received)
                  /\ Received[Len(Received)].offset = zf.start_dir

\* tell() does not decrease from one step of the generator to the next
TellNeverDecreases ==
    (Generator.fileobj # None /\ Generator'.fileobj # None)
        => tell(Generator'.fileobj[1]) >= tell(Generator.fileobj[1])

\* C27: throughout a run of the generator NoSeekBytesIO.tell() is the total
\* number of bytes written to the buffer since its creation (deleted_offset
\* plus the position in the live buffer), it never decreases, and draining
\* leaves it as it is, truncate_and_remember_offset adding the drained bytes
\* to deleted_offset; so the offsets recorded for the members and for the
\* central directory are positions in the concatenated output.
C27_TellIsStreamPosition ==
    []TellCountsAllBytes /\ [][TellNeverDecreases]_vars

\* the central directory has been written behind two drained members: the
\* offsets recorded lie beyond what the live buffer holds
C27_Witness ==
    /\ Generator.pc = "at_final_yield"
    /\ Len(Generator.zf[1].filelist) >= 2
    /\ Generator.zf[1].start_dir > Len(Generator.fileobj[1].fp)
    /\ Generator.fileobj[1].deleted_offset = Generator.zf[1].start_dir

(***************************************************************************)
(* Generators of several requests, their pulls interleaved.                 *)
(***************************************************************************)
\* the generator of the same call after k pulls, with no other generator
\* about
RECURSIVE PulledAlone(_, _)
PulledAlone(filenames, k) ==
    IF k = 0 THEN generate_zip_ephemeral_chunks(filenames)
    ELSE resume(PulledAlone(filenames, k - 1), mntbench_all_zip)

\* generator G is as it would be had it run alone: after some number of
\* pulls, or given up after them
AsWhenAlone(G) ==
    \E k \in 0..(Len(G.filenames) + 2) :
        \/ G = PulledAlone(G.filenames, k)
        \/ /\ G.pc = "closed"
           /\ G = close_generator(PulledAlone(G.filenames, k))

ReadEnded == pc \in {"returned", "raised"}

\* the file that was at huge_zip_path when the call was made is an archive
\* with members
HadLocalArchive ==
    /\ read_call[1].local_file # None
    /\ read_call[1].local_file[1].zip
    /\ read_call[1].local_file[1].namelist # << >>

\* C29: mnt.bench: when target_location holds a MNTBench_all.zip that is not
\* empty (and the module is installed), read_mntbench_all_zip loads it, sets
\* mntbench_all_zip to it and returns True, without a request to GitHub and
\* without a download, whatever skip_question and test are.
C29_LocalArchiveIsUsed ==
    (/\ backend = "bench"
     /\ ReadEnded
     /\ HadLocalArchive
     /\ read_call[1].module_version # None)
        => /\ read_call[1].returned = Some(TRUE)
           /\ mntbench_all_zip = Some(read_call[1].local_file[1].namelist)
           /\ read_call[1].requests = 0
           /\ read_call[1].downloads = 0

\* the user was asked at least once and declined every offer
DeclinedEveryOffer ==
    /\ ~read_call[1].skip_question
    /\ read_call[1].asked >= 1
    /\ read_call[1].downloads = 0

\* C30: read_mntbench_all_zip (either backend) ends in one of two ways only:
\* it returns True and mntbench_all_zip is the archive at
\* target_location/MNTBench_all.zip, or it returns False and
\* mntbench_all_zip is unset; without a local archive and with every offered
\* download declined it returns False and raises nothing.
C30_TwoOutcomes ==
    ReadEnded =>
        /\ \/ /\ read_call[1].returned = Some(TRUE)
              /\ read_call[1].file # None
              /\ mntbench_all_zip = Some(read_call[1].file[1].namelist)
           \/ /\ read_call[1].returned = Some(FALSE)
              /\ mntbench_all_zip = None
        /\ (read_call[1].local_file = None /\ DeclinedEveryOffer)
              => read_call[1].returned = Some(FALSE)

=============================================================================
